---- MODULE Spec2Model ----
(***************************************************************************)
(* Model of the MariaDB encryption-migration monitor: the AlertManager     *)
(* (internal/alert), the MetricsStorage (internal/storage), the            *)
(* ConnectionManager (internal/database), the MonitoringEngine             *)
(* (internal/monitor) with its goroutines and the WebServer's WebSocket    *)
(* connections (internal/web).                                             *)
(*                                                                         *)
(* The specifications share the variables; the principal ones are:         *)
(*   AlertSpec  the AlertManager driven through its exported Evaluate*     *)
(*              methods with arbitrary arguments;                          *)
(*   StoreSpec  the MetricsStorage driven through its exported methods,    *)
(*              with a reader holding the value of GetCurrentMetrics;      *)
(*   Spec       the program: main (Start, Stop), the monitoring loop, the  *)
(*              pair goroutines and their probe goroutines, writing to     *)
(*              the storage and the alert manager.                         *)
(*                                                                         *)
(* Units: time.Time is an integer number of clock units; LagSeconds is a   *)
(* fixed-point number of milliseconds, so that values that differ below    *)
(* the precision of the "%.2f" rendering exist in the model.               *)
(***************************************************************************)
EXTENDS Integers, Sequences, FiniteSets, TLC

VARIABLES
    \* alert.AlertManager
    alerts,             \* []Alert: the history, a sequence of Alert values
    activeAlerts,       \* map[string]*Alert: key -> the Alert object it points to
    \* storage.MetricsStorage
    replicaLagHistory,  \* []ReplicaLagMetric, one slice for all pairs
    checksumResults,    \* map "pair:table" -> *ChecksumResult
    consistencyResults, \* map "pair:table" -> *ConsistencyResult
    connectionStatus,   \* map pair -> ConnectionStatus
    \* the wall clock (time.Now())
    now,
    \* a reader (web handler) holding the *CurrentMetrics it was returned
    snap,
    \* database.ConnectionManager of each pair
    sourceConn, targetConn,
    \* monitor.MonitoringEngine and its goroutines
    pairMonitors,       \* the configured pairs (name, tables), fixed at construction
    stopChan,           \* "open" | "closed"
    wgLoop,             \* me.wg: the counter Stop() waits on
    tickerC,            \* number of ticks buffered in ticker.C (capacity 1)
    mainPc,             \* main: <<"start", i>>, <<"spawn", 0>>, <<"running", 0>>, <<"wait", 0>>, <<"close", i>>, <<"stopped", 0>>, <<"panic", 0>>
    loopPc,             \* monitoringLoop: "none", "cycle", "wait", "select", "exited"
    cycle,              \* number of cycles started
    pairPc, healthOK,   \* per pair: position, and the locals sourceOK/targetOK
    lagPc, lagLocal,    \* per pair: the lag goroutine and its local metric
    csPc, csLocal,      \* per pair: the checksum goroutine and its local results
    ccPc, ccLocal,      \* per pair: the consistency goroutine and its local results
    \* web.WebServer and its goroutines
    wsClients,          \* map[*websocket.Conn]bool: the registered connections
    handlerPc,          \* per connection: "none", "registered", "writing", "reading", "closed"
    broadcastPc,        \* broadcastLoop: "idle", "loop" (in BroadcastUpdate, RLock held), "writing"
    broadcastTodo,      \* BroadcastUpdate: the connections its range has not come to
    broadcastConn,      \* BroadcastUpdate: the connection it is writing to
    connWriters,        \* per connection: the goroutines inside conn.WriteJSON
    \* history variables (not program state)
    activeKeys,         \* keys whose latest evaluation asked for an alert
    evalLog,            \* AlertSpec: the Evaluate* calls made so far (method, pair, argument)
    probed,             \* per pair: what the current cycle did (probe kinds run, stored, evaluated)
    reach,              \* per pair: what the databases answered at the latest health check
    snapAtReturn        \* what the reader's *CurrentMetrics held when it was returned

alertVars  == <<alerts, activeAlerts>>
storeVars  == <<replicaLagHistory, checksumResults, consistencyResults, connectionStatus>>
connVars   == <<sourceConn, targetConn>>
engineVars == <<pairMonitors, stopChan, wgLoop, tickerC, mainPc, loopPc, cycle,
                pairPc, healthOK, lagPc, lagLocal, csPc, csLocal, ccPc, ccLocal>>
ghostVars  == <<activeKeys, evalLog, probed, reach, snapAtReturn>>
webVars    == <<wsClients, handlerPc, broadcastPc, broadcastTodo, broadcastConn, connWriters>>
vars == <<alertVars, storeVars, now, snap, connVars, engineVars, webVars, ghostVars>>

-----------------------------------------------------------------------------
(* Bounds of the model *)

MaxTime      == 3   \* the clock runs from 0 to MaxTime
MaxEvals     == 3   \* number of Evaluate* calls explored in AlertSpec
MaxCycles    == 2   \* monitoring cycles explored in Spec (the ticker stops firing)

\* The retention of the lag history, scaled to the model's clock: the program
\* keeps 24 hours (historyDuration) and 8640 entries (maxHistorySize).
historyDuration == 2
maxHistorySize  == 3

-----------------------------------------------------------------------------
(* Go values *)

\* a nil error, and an error with the given text
ErrNil     == [nil |-> TRUE, msg |-> ""]
Err(m)     == [nil |-> FALSE, msg |-> m]
\* a nil pointer argument
NilPtr     == [nilptr |-> TRUE]

\* fmt "%v" of an error value
FmtV(e) == IF e.nil THEN "<nil>" ELSE e.msg

\* fmt "%d"
FmtD(n) == ToString(n)

\* fmt "%.2f" of a non-negative value given in milliseconds: rounded to
\* hundredths (no modelled value lies exactly between two hundredths).
Fmt2f(ms) ==
    LET cs   == (ms + 5) \div 10
        frac == cs % 100
    IN  ToString(cs \div 100) \o "." \o (IF frac < 10 THEN "0" ELSE "") \o ToString(frac)

\* config.ReplicaLagThreshold.Seconds(), in milliseconds (the default, 60 s)
ReplicaLagThreshold == 60000

-----------------------------------------------------------------------------
(* Names used by the configurations and by the callers of the exported     *)
(* methods.  Names may contain "_", as database and table names do.        *)

PairNames  == {"a", "a_b"}
TableNames == {"t", "b_t"}

\* the alertKey of each Evaluate* method
LagKey(pairName)                == "replica_lag_" \o pairName
ChecksumKey(pairName, table)    == "checksum_" \o pairName \o "_" \o table
ConsistencyKey(pairName, table) == "consistency_" \o pairName \o "_" \o table

AllKeys ==
    {LagKey(p) : p \in PairNames}
      \cup {ChecksumKey(p, t) : p \in PairNames, t \in TableNames}
      \cup {ConsistencyKey(p, t) : p \in PairNames, t \in TableNames}

-----------------------------------------------------------------------------
(* alert.AlertManager *)

\* the Alert literal every Evaluate* branch builds
NewAlert(key, severity, type, message) ==
    [ID        |-> key \o "_" \o FmtD(now),
     Timestamp |-> now,
     Severity  |-> severity,
     Type      |-> type,
     Message   |-> message,
     Resolved  |-> FALSE]

\* addAlert without the duplicate check
addAlert_NoDedup(key, alert) ==
    /\ activeAlerts' = [k \in DOMAIN activeAlerts \cup {key} |->
                           IF k = key THEN alert ELSE activeAlerts[k]]
    /\ alerts' = Append(alerts, alert)

\* addAlert updating the history entry of the open alert in place when the
\* message changes
addAlert_Replaces(key, alert) ==
    IF key \in DOMAIN activeAlerts /\ activeAlerts[key].Message = alert.Message
    THEN UNCHANGED <<alerts, activeAlerts>>
    ELSE /\ activeAlerts' = [k \in DOMAIN activeAlerts \cup {key} |->
                                IF k = key THEN alert ELSE activeAlerts[k]]
         /\ alerts' = IF key \in DOMAIN activeAlerts
                      THEN [k \in DOMAIN alerts |->
                               IF alerts[k].Message = activeAlerts[key].Message
                               THEN alert ELSE alerts[k]]
                      ELSE Append(alerts, alert)

\* addAlert: the map entry points to the parameter (a copy of the caller's
\* value); the history gets another copy
addAlert(key, alert) ==
    IF key \in DOMAIN activeAlerts /\ activeAlerts[key].Message = alert.Message
    THEN UNCHANGED <<alerts, activeAlerts>>
    ELSE /\ activeAlerts' = [k \in DOMAIN activeAlerts \cup {key} |->
                                IF k = key THEN alert ELSE activeAlerts[k]]
         /\ alerts' = Append(alerts, alert)

\* resolveAlert that marks the alert and keeps the map entry
resolveAlert_NoDelete(key) ==
    IF key \in DOMAIN activeAlerts
    THEN /\ activeAlerts' = [activeAlerts EXCEPT ![key].Resolved = TRUE]
         /\ UNCHANGED alerts
    ELSE UNCHANGED <<alerts, activeAlerts>>

\* resolveAlert: sets Resolved on the object the map entry points to, then
\* deletes the entry; the history slice holds its own copy and is not written
resolveAlert(key) ==
    IF key \in DOMAIN activeAlerts
    THEN LET marked == [activeAlerts EXCEPT ![key].Resolved = TRUE]
         IN  /\ activeAlerts' = [k \in DOMAIN marked \ {key} |-> marked[k]]
             /\ UNCHANGED alerts
    ELSE UNCHANGED <<alerts, activeAlerts>>

LagMessage(pairName, metric) ==
    "[" \o pairName \o "] Replica lag (" \o Fmt2f(metric.LagSeconds)
        \o " seconds) exceeds threshold (" \o Fmt2f(ReplicaLagThreshold) \o " seconds)"

StoppedMessage(pairName, metric) ==
    "[" \o pairName \o "] Replication stopped: " \o FmtV(metric.Error)

\* EvaluateReplicaLag with the lag compared before the status is looked at
EvaluateReplicaLag_LagFirst(pairName, metric) ==
    IF metric = NilPtr
    THEN UNCHANGED <<alerts, activeAlerts>>
    ELSE LET alertKey == LagKey(pairName) IN
         IF metric.LagSeconds > ReplicaLagThreshold
         THEN addAlert(alertKey, NewAlert(alertKey, "WARNING", "replica_lag",
                                          LagMessage(pairName, metric)))
         ELSE IF metric.Status = "replication_stopped"
         THEN addAlert(alertKey, NewAlert(alertKey, "CRITICAL", "replication_stopped",
                                          StoppedMessage(pairName, metric)))
         ELSE resolveAlert(alertKey)

\* EvaluateReplicaLag alerting from the threshold on (>= for >)
EvaluateReplicaLag_AtThreshold(pairName, metric) ==
    IF metric = NilPtr
    THEN UNCHANGED <<alerts, activeAlerts>>
    ELSE LET alertKey == LagKey(pairName) IN
         IF metric.Status = "ok" /\ metric.LagSeconds >= ReplicaLagThreshold
         THEN addAlert(alertKey, NewAlert(alertKey, "WARNING", "replica_lag",
                                          LagMessage(pairName, metric)))
         ELSE IF metric.Status = "replication_stopped"
         THEN addAlert(alertKey, NewAlert(alertKey, "CRITICAL", "replication_stopped",
                                          StoppedMessage(pairName, metric)))
         ELSE resolveAlert(alertKey)

EvaluateReplicaLag(pairName, metric) ==
    IF metric = NilPtr
    THEN UNCHANGED <<alerts, activeAlerts>>
    ELSE LET alertKey == LagKey(pairName) IN
         IF metric.Status = "ok" /\ metric.LagSeconds > ReplicaLagThreshold
         THEN addAlert(alertKey, NewAlert(alertKey, "WARNING", "replica_lag",
                                          LagMessage(pairName, metric)))
         ELSE IF metric.Status = "replication_stopped"
         THEN addAlert(alertKey, NewAlert(alertKey, "CRITICAL", "replication_stopped",
                                          StoppedMessage(pairName, metric)))
         ELSE resolveAlert(alertKey)

ChecksumMismatchMessage(pairName, result) ==
    "[" \o pairName \o "] Checksum mismatch for table " \o result.TableName
        \o " (source: " \o result.SourceChecksum \o ", target: " \o result.TargetChecksum \o ")"

ChecksumErrorMessage(pairName, result) ==
    "[" \o pairName \o "] Checksum validation error for table " \o result.TableName
        \o ": " \o FmtV(result.Error)

\* EvaluateChecksum whose last branch resolves nothing
EvaluateChecksum_NoResolve(pairName, result) ==
    IF result = NilPtr
    THEN UNCHANGED <<alerts, activeAlerts>>
    ELSE LET alertKey == ChecksumKey(pairName, result.TableName) IN
         IF ~result.Match /\ result.Error.nil
         THEN addAlert(alertKey, NewAlert(alertKey, "CRITICAL", "checksum_mismatch",
                                          ChecksumMismatchMessage(pairName, result)))
         ELSE IF ~result.Error.nil
         THEN addAlert(alertKey, NewAlert(alertKey, "WARNING", "checksum_error",
                                          ChecksumErrorMessage(pairName, result)))
         ELSE UNCHANGED <<alerts, activeAlerts>>

EvaluateChecksum(pairName, result) ==
    IF result = NilPtr
    THEN UNCHANGED <<alerts, activeAlerts>>
    ELSE LET alertKey == ChecksumKey(pairName, result.TableName) IN
         IF ~result.Match /\ result.Error.nil
         THEN addAlert(alertKey, NewAlert(alertKey, "CRITICAL", "checksum_mismatch",
                                          ChecksumMismatchMessage(pairName, result)))
         ELSE IF ~result.Error.nil
         THEN addAlert(alertKey, NewAlert(alertKey, "WARNING", "checksum_error",
                                          ChecksumErrorMessage(pairName, result)))
         ELSE resolveAlert(alertKey)

ConsistencyMismatchMessage(pairName, result) ==
    "[" \o pairName \o "] Row count mismatch for table " \o result.TableName
        \o " (source: " \o FmtD(result.SourceRowCount) \o ", target: "
        \o FmtD(result.TargetRowCount) \o ")"

ConsistencyErrorMessage(pairName, result) ==
    "[" \o pairName \o "] Consistency check error for table " \o result.TableName
        \o ": " \o FmtV(result.Error)

\* EvaluateConsistency taking every inconsistent result for a mismatch,
\* whether or not it carries an error
EvaluateConsistency_MismatchFirst(pairName, result) ==
    IF result = NilPtr
    THEN UNCHANGED <<alerts, activeAlerts>>
    ELSE LET alertKey == ConsistencyKey(pairName, result.TableName) IN
         IF ~result.Consistent
         THEN addAlert(alertKey, NewAlert(alertKey, "CRITICAL", "consistency_mismatch",
                                          ConsistencyMismatchMessage(pairName, result)))
         ELSE IF ~result.Error.nil
         THEN addAlert(alertKey, NewAlert(alertKey, "WARNING", "consistency_error",
                                          ConsistencyErrorMessage(pairName, result)))
         ELSE resolveAlert(alertKey)

EvaluateConsistency(pairName, result) ==
    IF result = NilPtr
    THEN UNCHANGED <<alerts, activeAlerts>>
    ELSE LET alertKey == ConsistencyKey(pairName, result.TableName) IN
         IF ~result.Consistent /\ result.Error.nil
         THEN addAlert(alertKey, NewAlert(alertKey, "CRITICAL", "consistency_mismatch",
                                          ConsistencyMismatchMessage(pairName, result)))
         ELSE IF ~result.Error.nil
         THEN addAlert(alertKey, NewAlert(alertKey, "WARNING", "consistency_error",
                                          ConsistencyErrorMessage(pairName, result)))
         ELSE resolveAlert(alertKey)

\* the slice a range over a map builds, in one of the orders Go may iterate
RECURSIVE MapValues(_, _)
MapValues(m, keys) ==
    IF keys = {} THEN <<>>
    ELSE LET k == CHOOSE x \in keys : TRUE
         IN  <<m[k]>> \o MapValues(m, keys \ {k})

\* GetActiveAlerts: a copy of every object the map points to
GetActiveAlerts == MapValues(activeAlerts, DOMAIN activeAlerts)

\* the history cap of GetAlertHistory
AlertHistoryLimit == 100

\* GetAlertHistory returning the first 100 entries
GetAlertHistory_Oldest ==
    SubSeq(alerts, 1, IF Len(alerts) > AlertHistoryLimit THEN AlertHistoryLimit ELSE Len(alerts))

\* GetAlertHistory: the last 100 entries of the history slice
GetAlertHistory ==
    LET start == IF Len(alerts) > AlertHistoryLimit
                 THEN Len(alerts) - AlertHistoryLimit ELSE 0
    IN  SubSeq(alerts, start + 1, Len(alerts))

-----------------------------------------------------------------------------
(* storage.MetricsStorage *)

Min(S) == CHOOSE x \in S : \A y \in S : x <= y

\* the key of the result maps
ResultKey(pairName, table) == pairName \o ":" \o table

\* StoreReplicaLag without the size cap
StoreReplicaLag_NoCap(metric) ==
    LET appended == Append(replicaLagHistory, metric)
        cutoff   == now - historyDuration
        fresh    == {i \in DOMAIN appended : appended[i].Timestamp > cutoff}
    IN  replicaLagHistory' =
            IF fresh = {} THEN appended
            ELSE SubSeq(appended, Min(fresh), Len(appended))

\* StoreReplicaLag: append; cut the slice at the first entry newer than the
\* cutoff (no cut when there is none); keep the last maxHistorySize entries
StoreReplicaLag(metric) ==
    LET appended == Append(replicaLagHistory, metric)
        cutoff   == now - historyDuration
        fresh    == {i \in DOMAIN appended : appended[i].Timestamp > cutoff}
        trimmed  == IF fresh = {} THEN appended
                    ELSE SubSeq(appended, Min(fresh), Len(appended))
    IN  replicaLagHistory' =
            IF Len(trimmed) > maxHistorySize
            THEN SubSeq(trimmed, Len(trimmed) - maxHistorySize + 1, Len(trimmed))
            ELSE trimmed

\* m with key k set to v
MapPut(m, k, v) == [x \in DOMAIN m \cup {k} |-> IF x = k THEN v ELSE m[x]]

StoreChecksumResult(result) ==
    checksumResults' =
        MapPut(checksumResults, ResultKey(result.DatabasePair, result.TableName), result)

StoreConsistencyResult(result) ==
    consistencyResults' =
        MapPut(consistencyResults, ResultKey(result.DatabasePair, result.TableName), result)

UpdateConnectionStatus(pairName, status) ==
    connectionStatus' = MapPut(connectionStatus, pairName, status)

\* GetReplicaLagHistory: the entries newer than now - duration, in slice order
GetReplicaLagHistory(duration) ==
    LET cutoff == now - duration
        Newer(metric) == metric.Timestamp > cutoff
    IN  SelectSeq(replicaLagHistory, Newer)

\* the loop of GetCurrentMetrics: scanning backward, a copy of the first entry
\* met for each pair
LatestReplicaLag ==
    LET h     == replicaLagHistory
        names == {h[i].DatabasePair : i \in DOMAIN h}
        Last(p) == CHOOSE i \in DOMAIN h :
                      /\ h[i].DatabasePair = p
                      /\ \A j \in DOMAIN h : h[j].DatabasePair = p => j <= i
    IN  [p \in names |-> h[Last(p)]]

\* a Go map value is a reference to the map: the three maps of the storage
Ref(name) == [ref |-> name]
Deref(r) ==
    CASE r.ref = "checksumResults"    -> checksumResults
      [] r.ref = "consistencyResults" -> consistencyResults
      [] r.ref = "connectionStatus"   -> connectionStatus

\* GetCurrentMetrics: a fresh map of lag copies, and the storage's own three maps
GetCurrentMetrics ==
    [ReplicaLag         |-> LatestReplicaLag,
     ChecksumResults    |-> Ref("checksumResults"),
     ConsistencyResults |-> Ref("consistencyResults"),
     ConnectionStatus   |-> Ref("connectionStatus"),
     LastUpdated        |-> now]

\* what a reader finds in a *CurrentMetrics when it iterates it (handleMetrics
\* encodes it after GetCurrentMetrics has released the lock)
ReadMetrics(m) ==
    [ReplicaLag         |-> m.ReplicaLag,
     ChecksumResults    |-> Deref(m.ChecksumResults),
     ConsistencyResults |-> Deref(m.ConsistencyResults),
     ConnectionStatus   |-> Deref(m.ConnectionStatus),
     LastUpdated        |-> m.LastUpdated]

-----------------------------------------------------------------------------
(* Configurations: the pairs NewMonitoringEngine builds its monitors from  *)

Configs ==
    { << [pairName |-> "a",   tables |-> <<"b_t">>],
         [pairName |-> "a_b", tables |-> <<"t">>] >>,
      << [pairName |-> "a",   tables |-> <<"t", "b_t">>],
         [pairName |-> "a_b", tables |-> <<>>] >>,
      << [pairName |-> "a",   tables |-> <<"t">>],
         [pairName |-> "a_b", tables |-> <<>>] >> }

NumPairs == 2
PairIdx  == 1..NumPairs

-----------------------------------------------------------------------------
(* Initial state: the objects as main constructs them *)

\* NewAlertManager
InitAlertManager ==
    /\ alerts = <<>>
    /\ activeAlerts = <<>>

\* NewMetricsStorage
InitMetricsStorage ==
    /\ replicaLagHistory = <<>>
    /\ checksumResults = <<>>
    /\ consistencyResults = <<>>
    /\ connectionStatus = <<>>

\* NewConnectionManager: both handles nil
InitConnections ==
    /\ sourceConn = [i \in PairIdx |-> "nil"]
    /\ targetConn = [i \in PairIdx |-> "nil"]

\* NewMonitoringEngine; no goroutine runs yet
InitEngine ==
    /\ pairMonitors \in Configs
    /\ stopChan = "open"
    /\ wgLoop = 0
    /\ tickerC = 0
    /\ mainPc = <<"start", 1>>
    /\ loopPc = "none"
    /\ cycle = 0
    /\ pairPc = [i \in PairIdx |-> "idle"]
    /\ healthOK = [i \in PairIdx |-> [source |-> FALSE, target |-> FALSE]]
    /\ lagPc = [i \in PairIdx |-> "idle"]
    /\ lagLocal = [i \in PairIdx |-> NilPtr]
    /\ csPc = [i \in PairIdx |-> "idle"]
    /\ csLocal = [i \in PairIdx |-> <<>>]
    /\ ccPc = [i \in PairIdx |-> "idle"]
    /\ ccLocal = [i \in PairIdx |-> <<>>]

\* the connections of the clients that may open /ws
Conns == {"c1", "c2"}

\* NewWebServer: no client registered; broadcastLoop waits for its ticker
InitWebServer ==
    /\ wsClients = {}
    /\ handlerPc = [c \in Conns |-> "none"]
    /\ broadcastPc = "idle"
    /\ broadcastTodo = {}
    /\ broadcastConn = ""
    /\ connWriters = [c \in Conns |-> {}]

InitHistory ==
    /\ activeKeys = {}
    /\ evalLog = <<>>
    /\ probed = [i \in PairIdx |-> {}]
    /\ reach = [i \in PairIdx |-> [source |-> FALSE, target |-> FALSE]]
    /\ snapAtReturn = NilPtr

Init ==
    /\ InitAlertManager
    /\ InitMetricsStorage
    /\ InitConnections
    /\ InitEngine
    /\ InitHistory
    /\ InitWebServer
    /\ now = 0
    /\ snap = NilPtr

\* the clock
AdvanceClock ==
    /\ now < MaxTime
    /\ now' = now + 1

-----------------------------------------------------------------------------
(* AlertSpec: the AlertManager called through its exported methods.  The   *)
(* methods read the clock only to stamp the Alert they build (ID and       *)
(* Timestamp); the clock stands still in this specification.               *)

\* the rules of the alert conditions: does a measurement ask for an alert
WantsLagAlert(metric) ==
    \/ metric.Status = "ok" /\ metric.LagSeconds > ReplicaLagThreshold
    \/ metric.Status = "replication_stopped"
WantsChecksumAlert(result)    == ~result.Match \/ ~result.Error.nil
WantsConsistencyAlert(result) == ~result.Consistent \/ ~result.Error.nil

\* history: the key's condition after an evaluation
NoteKey(arg, key, wants) ==
    activeKeys' = IF arg = NilPtr THEN activeKeys
                  ELSE IF wants THEN activeKeys \cup {key}
                  ELSE activeKeys \ {key}

NoteEval(method, pairName, arg) ==
    evalLog' = Append(evalLog, [method |-> method, pairName |-> pairName, arg |-> arg])

\* the (pair, table) the table results are about: two tables of one pair, and
\* a table of the other pair
Subjects == {<<"a", "t">>, <<"a", "b_t">>, <<"a_b", "t">>}

\* arguments of EvaluateReplicaLag: lag values around the threshold, two of
\* them (60.001 s, 60.004 s) with the same "%.2f" rendering
LagArgs ==
    {[LagSeconds |-> l, Status |-> "ok", Error |-> ErrNil] : l \in {60000, 60001, 60004, 61000}}
      \cup {[LagSeconds |-> l, Status |-> "replication_stopped",
             Error |-> Err("replication not running (IO: No, SQL: Yes)")] : l \in {0, 61000}}
      \cup {[LagSeconds |-> 0, Status |-> "no_replication",
             Error |-> Err("no replication configured (SHOW SLAVE STATUS returned no rows)")]}
      \cup {NilPtr}

ChecksumArgs ==
    {[TableName |-> t, SourceChecksum |-> "AAA", TargetChecksum |-> c, Match |-> (c = "AAA"),
      Error |-> ErrNil] : t \in TableNames, c \in {"AAA", "BBB"}}
      \cup {[TableName |-> t, SourceChecksum |-> "", TargetChecksum |-> "", Match |-> FALSE,
             Error |-> Err("source checksum error: checksum query failed")] : t \in TableNames}
      \cup {NilPtr}

ConsistencyArgs ==
    {[TableName |-> t, SourceRowCount |-> 100, TargetRowCount |-> c, Consistent |-> (c = 100),
      Error |-> ErrNil] : t \in TableNames, c \in {100, 98}}
      \cup {[TableName |-> t, SourceRowCount |-> 0, TargetRowCount |-> 0, Consistent |-> FALSE,
             Error |-> Err("source row count error: failed to get row count")] : t \in TableNames}
      \cup {NilPtr}

AlertFrame ==
    UNCHANGED <<storeVars, now, snap, connVars, engineVars, webVars, probed, reach, snapAtReturn>>

CallEvaluateReplicaLag ==
    \E p \in PairNames, m \in LagArgs :
        /\ Len(evalLog) < MaxEvals
        /\ EvaluateReplicaLag(p, m)
        /\ NoteKey(m, LagKey(p), m # NilPtr /\ WantsLagAlert(m))
        /\ NoteEval("lag", p, m)
        /\ AlertFrame

CallEvaluateChecksum ==
    \E p \in PairNames, r \in ChecksumArgs :
        /\ r # NilPtr => <<p, r.TableName>> \in Subjects
        /\ Len(evalLog) < MaxEvals
        /\ EvaluateChecksum(p, r)
        /\ NoteKey(r, IF r = NilPtr THEN "" ELSE ChecksumKey(p, r.TableName),
                   r # NilPtr /\ WantsChecksumAlert(r))
        /\ NoteEval("checksum", p, r)
        /\ AlertFrame

CallEvaluateConsistency ==
    \E p \in PairNames, r \in ConsistencyArgs :
        /\ r # NilPtr => <<p, r.TableName>> \in Subjects
        /\ Len(evalLog) < MaxEvals
        /\ EvaluateConsistency(p, r)
        /\ NoteKey(r, IF r = NilPtr THEN "" ELSE ConsistencyKey(p, r.TableName),
                   r # NilPtr /\ WantsConsistencyAlert(r))
        /\ NoteEval("consistency", p, r)
        /\ AlertFrame

NextAlert ==
    \/ CallEvaluateReplicaLag
    \/ CallEvaluateChecksum
    \/ CallEvaluateConsistency

InitAlertSpec ==
    /\ Init
    /\ pairMonitors = CHOOSE c \in Configs : TRUE

AlertSpec == InitAlertSpec /\ [][NextAlert]_vars

-----------------------------------------------------------------------------
(* Properties of the AlertManager (AlertSpec) *)

\* an entry of evalLog: its alert key, whether the rules ask for an alert,
\* and the message the method renders for it
EvalKey(e) ==
    CASE e.method = "lag"         -> LagKey(e.pairName)
      [] e.method = "checksum"    -> ChecksumKey(e.pairName, e.arg.TableName)
      [] e.method = "consistency" -> ConsistencyKey(e.pairName, e.arg.TableName)

EvalWants(e) ==
    /\ e.arg # NilPtr
    /\ CASE e.method = "lag"         -> WantsLagAlert(e.arg)
         [] e.method = "checksum"    -> WantsChecksumAlert(e.arg)
         [] e.method = "consistency" -> WantsConsistencyAlert(e.arg)

EvalMessage(e) ==
    CASE e.method = "lag" ->
            IF e.arg.Status = "ok" THEN LagMessage(e.pairName, e.arg)
            ELSE StoppedMessage(e.pairName, e.arg)
      [] e.method = "checksum" ->
            IF e.arg.Error.nil THEN ChecksumMismatchMessage(e.pairName, e.arg)
            ELSE ChecksumErrorMessage(e.pairName, e.arg)
      [] e.method = "consistency" ->
            IF e.arg.Error.nil THEN ConsistencyMismatchMessage(e.pairName, e.arg)
            ELSE ConsistencyErrorMessage(e.pairName, e.arg)

\* both entries are about the same condition (kind, pair, table)
SameCondition(e1, e2) ==
    /\ e1.arg # NilPtr /\ e2.arg # NilPtr
    /\ e1.method = e2.method
    /\ e1.pairName = e2.pairName
    /\ e1.method # "lag" => e1.arg.TableName = e2.arg.TableName

\* an above-threshold lag measurement with status ok
AboveThreshold(e) ==
    /\ e.method = "lag" /\ e.arg # NilPtr
    /\ e.arg.Status = "ok" /\ e.arg.LagSeconds > ReplicaLagThreshold

\* the key an Alert was built for, from its ID (key, "_", unix time)
KeyOfID(id) == CHOOSE k \in AllKeys : \E t \in 0..MaxTime : id = k \o "_" \o FmtD(t)

\* the step is one Evaluate* call
IsEvalStep == Len(evalLog') = Len(evalLog) + 1
ThisEval   == evalLog'[Len(evalLog')]

\* C1, each call: on a key that is already active, a measurement whose
\* rendered message equals the open alert's message changes neither the
\* history nor the active index; one whose message differs appends exactly
\* one Alert, carrying that message, to the history.
C1_DedupStep ==
    (IsEvalStep /\ EvalWants(ThisEval) /\ EvalKey(ThisEval) \in DOMAIN activeAlerts) =>
        IF activeAlerts[EvalKey(ThisEval)].Message = EvalMessage(ThisEval)
        THEN alerts' = alerts /\ activeAlerts' = activeAlerts
        ELSE /\ Len(alerts') = Len(alerts) + 1
             /\ SubSeq(alerts', 1, Len(alerts)) = alerts
             /\ alerts'[Len(alerts')].Message = EvalMessage(ThisEval)

\* the first n calls are above-threshold lag measurements of one pair
LagRun(n) ==
    /\ Len(evalLog) = n
    /\ \A i \in 1..n : AboveThreshold(evalLog[i]) /\ evalLog[i].pairName = evalLog[1].pairName

\* C1, the scenario: two above-threshold lag measurements with identical
\* messages give one history entry; a third whose rendered message differs
\* gives two.
C1_Scenario ==
    /\ (LagRun(2) /\ EvalMessage(evalLog[1]) = EvalMessage(evalLog[2]))
          => Len(GetAlertHistory) = 1
    /\ (LagRun(3) /\ EvalMessage(evalLog[1]) = EvalMessage(evalLog[2])
                  /\ EvalMessage(evalLog[3]) # EvalMessage(evalLog[2]))
          => Len(GetAlertHistory) = 2

\* C1 (amended): alert deduplication is by rendered message: a measurement
\* on an active key with the open alert's message adds nothing, one with
\* another message adds exactly one Alert; two above-threshold lag
\* measurements with identical messages give one history entry and a third
\* whose rendered message differs gives two.
C1_Dedup == [][C1_DedupStep]_vars /\ []C1_Scenario

C1_Witness ==
    /\ LagRun(3)
    /\ EvalMessage(evalLog[1]) = EvalMessage(evalLog[2])
    /\ evalLog[1].arg.LagSeconds # evalLog[2].arg.LagSeconds
    /\ EvalMessage(evalLog[3]) # EvalMessage(evalLog[2])
    /\ Len(GetAlertHistory) = 2

\* C1 as stated: after two above-threshold lag measurements with identical
\* messages, a third with a different lag value gives exactly two entries.
C1_Original ==
    (LagRun(3) /\ EvalMessage(evalLog[1]) = EvalMessage(evalLog[2])
               /\ evalLog[3].arg.LagSeconds # evalLog[1].arg.LagSeconds
               /\ evalLog[3].arg.LagSeconds # evalLog[2].arg.LagSeconds)
        => Len(GetAlertHistory) = 2

\* the latest two calls took a condition from active to inactive
JustResolved ==
    /\ Len(evalLog) >= 2
    /\ LET e1 == evalLog[Len(evalLog) - 1]
           e2 == evalLog[Len(evalLog)]
       IN  SameCondition(e1, e2) /\ EvalWants(e1) /\ ~EvalWants(e2)

\* C2: after a condition went from active to inactive, the alert that was
\* open is in the list GetAlertHistory returns, with its resolved flag true.
C2_ResolvedInHistory ==
    JustResolved =>
        LET e1 == evalLog[Len(evalLog) - 1]
            h  == GetAlertHistory
        IN  \E i \in DOMAIN h :
                /\ KeyOfID(h[i].ID) = EvalKey(e1)
                /\ h[i].Message = EvalMessage(e1)
                /\ h[i].Resolved

MismatchThenMatch ==
    /\ JustResolved
    /\ LET e1 == evalLog[Len(evalLog) - 1]
           e2 == evalLog[Len(evalLog)]
       IN  /\ e1.method = "checksum"
           /\ ~e1.arg.Match /\ e1.arg.Error.nil
           /\ e2.arg.Match /\ e2.arg.Error.nil

\* C4: after a fingerprint mismatch (no error) followed by a match for the
\* same (pair, table), the condition's key is absent from GetActiveAlerts.
C4_MismatchThenMatchResolves ==
    MismatchThenMatch =>
        LET k   == EvalKey(evalLog[Len(evalLog)])
            act == GetActiveAlerts
        IN  /\ k \notin DOMAIN activeAlerts
            /\ \A i \in DOMAIN act : KeyOfID(act[i].ID) # k

C4_Witness ==
    /\ MismatchThenMatch
    /\ Len(alerts) >= 1
    /\ EvalKey(evalLog[Len(evalLog)]) \notin DOMAIN activeAlerts

-----------------------------------------------------------------------------
(* StoreSpec: the lag history of the MetricsStorage, written through       *)
(* StoreReplicaLag while the clock runs.  A metric's Timestamp is the time *)
(* its probe started, so it may lie before the time of the write.          *)

StoreLagArgs ==
    {[DatabasePair |-> p, Timestamp |-> t, LagSeconds |-> l, Status |-> "ok", Error |-> ErrNil] :
        p \in PairNames, t \in 0..now, l \in {0, 61000}}

StoreFrame ==
    UNCHANGED <<alertVars, snap, connVars, engineVars, webVars, ghostVars>>

CallStoreReplicaLag ==
    \E m \in StoreLagArgs :
        /\ StoreReplicaLag(m)
        /\ UNCHANGED <<checksumResults, consistencyResults, connectionStatus, now>>
        /\ StoreFrame

StoreClock ==
    /\ AdvanceClock
    /\ UNCHANGED storeVars
    /\ StoreFrame

NextStore ==
    \/ CallStoreReplicaLag
    \/ StoreClock

InitStoreSpec ==
    /\ Init
    /\ pairMonitors = CHOOSE c \in Configs : TRUE

StoreSpec == InitStoreSpec /\ [][NextStore]_vars

\* C10: GetReplicaLagHistory(historyDuration) holds no entry older than
\* historyDuration and at most maxHistorySize entries.
C10_HistoryBounded ==
    LET h == GetReplicaLagHistory(historyDuration)
    IN  /\ Len(h) <= maxHistorySize
        /\ \A i \in DOMAIN h : now - h[i].Timestamp < historyDuration

\* the slice is at its cap, it still holds an entry older than the window,
\* and GetReplicaLagHistory returns the others
C10_Witness ==
    /\ Len(replicaLagHistory) = maxHistorySize
    /\ Len(GetReplicaLagHistory(historyDuration)) = maxHistorySize - 1
    /\ \E i \in DOMAIN replicaLagHistory :
          now - replicaLagHistory[i].Timestamp >= historyDuration

-----------------------------------------------------------------------------
(* SnapshotSpec: the storage written through its exported methods while a  *)
(* reader holds the *CurrentMetrics GetCurrentMetrics returned to it.  The *)
(* clock stands still.                                                     *)

SnapSubjects == {<<"a", "t">>}

SnapLagArgs ==
    {[DatabasePair |-> p, Timestamp |-> now, LagSeconds |-> 0, Status |-> "ok", Error |-> ErrNil] :
        p \in {"a"}}

SnapChecksumArgs ==
    {[DatabasePair |-> s[1], TableName |-> s[2], SourceChecksum |-> "AAA",
      TargetChecksum |-> c, Match |-> (c = "AAA"), Timestamp |-> now, Error |-> ErrNil] :
        s \in SnapSubjects, c \in {"AAA", "BBB"}}

SnapConsistencyArgs ==
    {[DatabasePair |-> s[1], TableName |-> s[2], SourceRowCount |-> 100,
      TargetRowCount |-> c, Consistent |-> (c = 100), Timestamp |-> now, Error |-> ErrNil] :
        s \in SnapSubjects, c \in {100, 98}}

SnapStatusArgs ==
    {[SourceConnected |-> so, TargetConnected |-> ta, LastChecked |-> now] :
        so \in BOOLEAN, ta \in {TRUE}}

SnapFrame ==
    UNCHANGED <<alertVars, now, connVars, engineVars, webVars,
                activeKeys, evalLog, probed, reach>>

SnapStoreReplicaLag ==
    \E m \in SnapLagArgs :
        /\ StoreReplicaLag(m)
        /\ UNCHANGED <<checksumResults, consistencyResults, connectionStatus>>
        /\ UNCHANGED <<snap, snapAtReturn>>
        /\ SnapFrame

SnapStoreChecksumResult ==
    \E r \in SnapChecksumArgs :
        /\ StoreChecksumResult(r)
        /\ UNCHANGED <<replicaLagHistory, consistencyResults, connectionStatus>>
        /\ UNCHANGED <<snap, snapAtReturn>>
        /\ SnapFrame

SnapStoreConsistencyResult ==
    \E r \in SnapConsistencyArgs :
        /\ StoreConsistencyResult(r)
        /\ UNCHANGED <<replicaLagHistory, checksumResults, connectionStatus>>
        /\ UNCHANGED <<snap, snapAtReturn>>
        /\ SnapFrame

SnapUpdateConnectionStatus ==
    \E p \in PairNames, st \in SnapStatusArgs :
        /\ UpdateConnectionStatus(p, st)
        /\ UNCHANGED <<replicaLagHistory, checksumResults, consistencyResults>>
        /\ UNCHANGED <<snap, snapAtReturn>>
        /\ SnapFrame

\* handleMetrics: metrics := ws.storage.GetCurrentMetrics()
SnapGetCurrentMetrics ==
    /\ snap = NilPtr
    /\ snap' = GetCurrentMetrics
    /\ snapAtReturn' = ReadMetrics(GetCurrentMetrics)
    /\ UNCHANGED storeVars
    /\ SnapFrame

NextSnapshot ==
    \/ SnapStoreReplicaLag
    \/ SnapStoreChecksumResult
    \/ SnapStoreConsistencyResult
    \/ SnapUpdateConnectionStatus
    \/ SnapGetCurrentMetrics

SnapshotSpec == InitStoreSpec /\ [][NextSnapshot]_vars

\* C5: what a reader finds in the value GetCurrentMetrics returned is what it
\* held when it was returned, whatever is written to the storage afterwards.
C5_SnapshotIsCopy ==
    snap # NilPtr => ReadMetrics(snap) = snapAtReturn

-----------------------------------------------------------------------------
(* database.ConnectionManager.  A handle is "nil", "open" or "closed".     *)

maxRetries == 3

\* what one attempt of connectWithRetry meets
AttemptOutcomes == {"ok", "open_error", "ping_error"}
Attempts == [1..maxRetries -> AttemptOutcomes]

\* connectWithRetry: the handle is set by the first attempt whose sql.Open and
\* Ping succeed; after maxRetries failures it is left as it was
\* connectWithRetry assigning the handle before the ping
connectWithRetry_SetsBeforePing(conn, attempts) ==
    LET ok     == {k \in 1..maxRetries : attempts[k] = "ok"}
        opened == {k \in 1..maxRetries : attempts[k] = "ping_error"}
    IN  IF ok = {}
        THEN [conn |-> IF opened = {} THEN conn ELSE "closed", err |-> TRUE,
              tried |-> maxRetries]
        ELSE [conn |-> "open", err |-> FALSE, tried |-> Min(ok)]

\* the for loop of connectWithRetry from the given attempt on: an attempt whose
\* sql.Open or Ping fails continues with the next; the first that succeeds
\* assigns the handle and returns nil; after the last the error is returned
RECURSIVE connectLoop(_, _, _)
connectLoop(conn, attempts, attempt) ==
    IF attempt > maxRetries
    THEN [conn |-> conn, err |-> TRUE, tried |-> maxRetries]
    ELSE IF attempts[attempt] = "ok"
    THEN [conn |-> "open", err |-> FALSE, tried |-> attempt]
    ELSE connectLoop(conn, attempts, attempt + 1)

connectWithRetry(conn, attempts) == connectLoop(conn, attempts, 1)

\* (*sql.DB).Ping on a handle: answered by the database, or "database is closed"
Ping(conn, answers) == conn = "open" /\ answers

\* HealthCheck: a side is OK when its handle is not nil and its Ping succeeds
HealthCheck(sConn, tConn, srcAnswers, tgtAnswers) ==
    [source |-> sConn # "nil" /\ Ping(sConn, srcAnswers),
     target |-> tConn # "nil" /\ Ping(tConn, tgtAnswers)]

\* Close of one handle
CloseConn(conn) == IF conn # "nil" THEN "closed" ELSE conn

-----------------------------------------------------------------------------
(* The probes of internal/monitor *)

\* a response to SHOW SLAVE STATUS: the query fails, or returns no row, or a
\* row that cannot be read (rows.Columns or rows.Scan fails), or a row with
\* Slave_IO_Running, Slave_SQL_Running ("absent" when not readable) and
\* Seconds_Behind_Master (valid or NULL)
SlaveStatus(io, sql, valid, ms) ==
    [queryErr |-> FALSE, hasRow |-> TRUE, rowErr |-> FALSE, io |-> io, sql |-> sql,
     sbm |-> [valid |-> valid, value |-> ms]]

\* the value the driver hands over for the Seconds_Behind_Master column: the
\* column is missing, or NULL, or an integer, or text
RawMissing   == [kind |-> "missing"]
RawNull      == [kind |-> "nil"]
RawInt64(v)  == [kind |-> "int64", v |-> v]
RawBytes(t)  == [kind |-> "bytes", s |-> t]

\* fmt.Sscanf(text, "%f", &f) on the texts of the model: the value in
\* milliseconds, or a failure
SscanfFloat(t) ==
    CASE t = "0"  -> [ok |-> TRUE,  value |-> 0]
      [] t = "60" -> [ok |-> TRUE,  value |-> 60000]
      [] t = "61" -> [ok |-> TRUE,  value |-> 61000]
      [] OTHER    -> [ok |-> FALSE, value |-> 0]

\* MeasureLag's type switch on the column value: secondsBehindMaster
\* (sql.NullFloat64) is valid only for a number or for text that parses
ScanSecondsBehindMaster(raw) ==
    CASE raw.kind = "int64" -> [valid |-> TRUE, value |-> raw.v * 1000]
      [] raw.kind = "bytes" -> [valid |-> SscanfFloat(raw.s).ok, value |-> SscanfFloat(raw.s).value]
      [] OTHER              -> [valid |-> FALSE, value |-> 0]

\* a row as the driver returns it, read by MeasureLag
SlaveStatusRow(io, sql, raw) ==
    SlaveStatus(io, sql, ScanSecondsBehindMaster(raw).valid, ScanSecondsBehindMaster(raw).value)

\* MeasureLag reporting a lag it could not read as a lag of zero
MeasureLag_NullIsZero(conn, resp) ==
    LET metric == [Timestamp |-> now, LagSeconds |-> 0, Status |-> "unknown", Error |-> ErrNil]
    IN  IF conn = "nil"
        THEN [metric EXCEPT !.Status = "connection_error",
                            !.Error = Err("target database connection not established")]
        ELSE IF conn = "closed" \/ resp.queryErr
        THEN [metric EXCEPT !.Status = "query_error",
                            !.Error = Err("failed to query slave status")]
        ELSE IF ~resp.hasRow
        THEN [metric EXCEPT !.Status = "no_replication",
                            !.Error = Err("no replication configured (SHOW SLAVE STATUS returned no rows)")]
        ELSE IF resp.rowErr
        THEN [metric EXCEPT !.Status = "error",
                            !.Error = Err("failed to scan slave status")]
        ELSE IF resp.io = "absent" \/ resp.sql = "absent"
        THEN [metric EXCEPT !.Status = "status_unknown",
                            !.Error = Err("could not determine replication status (Slave_IO_Running or Slave_SQL_Running not found)")]
        ELSE IF resp.io # "Yes" \/ resp.sql # "Yes"
        THEN [metric EXCEPT !.Status = "replication_stopped",
                            !.Error = Err("replication not running (IO: " \o resp.io
                                          \o ", SQL: " \o resp.sql \o ")")]
        ELSE [metric EXCEPT !.Status = "ok", !.LagSeconds = resp.sbm.value]

\* MeasureLag: the metric it returns (never nil)
MeasureLag(conn, resp) ==
    LET metric == [Timestamp |-> now, LagSeconds |-> 0, Status |-> "unknown", Error |-> ErrNil]
    IN  IF conn = "nil"
        THEN [metric EXCEPT !.Status = "connection_error",
                            !.Error = Err("target database connection not established")]
        ELSE IF conn = "closed" \/ resp.queryErr
        THEN [metric EXCEPT !.Status = "query_error",
                            !.Error = Err("failed to query slave status")]
        ELSE IF ~resp.hasRow
        THEN [metric EXCEPT !.Status = "no_replication",
                            !.Error = Err("no replication configured (SHOW SLAVE STATUS returned no rows)")]
        ELSE IF resp.rowErr
        THEN [metric EXCEPT !.Status = "error",
                            !.Error = Err("failed to scan slave status")]
        ELSE IF resp.io = "absent" \/ resp.sql = "absent"
        THEN [metric EXCEPT !.Status = "status_unknown",
                            !.Error = Err("could not determine replication status (Slave_IO_Running or Slave_SQL_Running not found)")]
        ELSE IF resp.io # "Yes" \/ resp.sql # "Yes"
        THEN [metric EXCEPT !.Status = "replication_stopped",
                            !.Error = Err("replication not running (IO: " \o resp.io
                                          \o ", SQL: " \o resp.sql \o ")")]
        ELSE IF resp.sbm.valid
        THEN [metric EXCEPT !.Status = "ok", !.LagSeconds = resp.sbm.value]
        ELSE [metric EXCEPT !.Status = "lag_unknown",
                            !.Error = Err("seconds_behind_master is NULL (replication may be initializing)")]

\* the answers of the two databases to the query of a table probe: an error,
\* or a value
TableAnswer(srcErr, src, tgtErr, tgt) ==
    [srcErr |-> srcErr, src |-> src, tgtErr |-> tgtErr, tgt |-> tgt]

\* ValidateTable giving a verdict from the source side alone when the target
\* side failed
ValidateTable_VerdictOnPartial(tableName, sConn, tConn, ans) ==
    LET result == [TableName |-> tableName, SourceChecksum |-> "", TargetChecksum |-> "",
                   Match |-> FALSE, Timestamp |-> now, Error |-> ErrNil]
    IN  IF sConn = "nil"
        THEN [result EXCEPT !.Error = Err("source connection error: source database connection not established")]
        ELSE IF tConn = "nil"
        THEN [result EXCEPT !.Error = Err("target connection error: target database connection not established")]
        ELSE IF sConn = "closed" \/ ans.srcErr
        THEN [result EXCEPT !.Error = Err("source checksum error: checksum query failed")]
        ELSE IF tConn = "closed" \/ ans.tgtErr
        THEN [result EXCEPT !.SourceChecksum = ans.src, !.Match = TRUE,
                            !.Error = Err("target checksum error: checksum query failed")]
        ELSE [result EXCEPT !.SourceChecksum = ans.src, !.TargetChecksum = ans.tgt,
                            !.Match = (ans.src = ans.tgt)]

\* ValidateTable
ValidateTable(tableName, sConn, tConn, ans) ==
    LET result == [TableName |-> tableName, SourceChecksum |-> "", TargetChecksum |-> "",
                   Match |-> FALSE, Timestamp |-> now, Error |-> ErrNil]
    IN  IF sConn = "nil"
        THEN [result EXCEPT !.Error = Err("source connection error: source database connection not established")]
        ELSE IF tConn = "nil"
        THEN [result EXCEPT !.Error = Err("target connection error: target database connection not established")]
        ELSE IF sConn = "closed" \/ ans.srcErr
        THEN [result EXCEPT !.Error = Err("source checksum error: checksum query failed")]
        ELSE IF tConn = "closed" \/ ans.tgtErr
        THEN [result EXCEPT !.SourceChecksum = ans.src,
                            !.Error = Err("target checksum error: checksum query failed")]
        ELSE [result EXCEPT !.SourceChecksum = ans.src, !.TargetChecksum = ans.tgt,
                            !.Match = (ans.src = ans.tgt)]

\* ValidateAllTables giving up at the first table whose probe failed
ValidateAllTables_StopAtError(tables, sConn, tConn, answers) ==
    LET all    == [k \in DOMAIN tables |-> ValidateTable(tables[k], sConn, tConn, answers[k])]
        failed == {k \in DOMAIN all : ~all[k].Error.nil}
    IN  IF failed = {} THEN all ELSE SubSeq(all, 1, Min(failed))

\* ValidateAllTables: one result per table, in table order
ValidateAllTables(tables, sConn, tConn, answers) ==
    [k \in DOMAIN tables |-> ValidateTable(tables[k], sConn, tConn, answers[k])]

\* CheckTable
CheckTable(tableName, sConn, tConn, ans) ==
    LET result == [TableName |-> tableName, SourceRowCount |-> 0, TargetRowCount |-> 0,
                   Consistent |-> FALSE, Timestamp |-> now, Error |-> ErrNil]
    IN  IF sConn = "nil"
        THEN [result EXCEPT !.Error = Err("source connection error: source database connection not established")]
        ELSE IF tConn = "nil"
        THEN [result EXCEPT !.Error = Err("target connection error: target database connection not established")]
        ELSE IF sConn = "closed" \/ ans.srcErr
        THEN [result EXCEPT !.Error = Err("source row count error: failed to get row count")]
        ELSE IF tConn = "closed" \/ ans.tgtErr
        THEN [result EXCEPT !.SourceRowCount = ans.src,
                            !.Error = Err("target row count error: failed to get row count")]
        ELSE [result EXCEPT !.SourceRowCount = ans.src, !.TargetRowCount = ans.tgt,
                            !.Consistent = (ans.src = ans.tgt)]

\* CheckAllTables: one result per table, in table order
CheckAllTables(tables, sConn, tConn, answers) ==
    [k \in DOMAIN tables |-> CheckTable(tables[k], sConn, tConn, answers[k])]

\* what the databases answer in Spec: no lag, a checksum that differs, equal
\* row counts
EngineSlaveStatus     == {SlaveStatus("Yes", "Yes", TRUE, 0)}
EngineChecksumAnswers == {TableAnswer(FALSE, "AAA", FALSE, "BBB")}
EngineCountAnswers    == {TableAnswer(FALSE, 100, FALSE, 100)}

-----------------------------------------------------------------------------
(* Spec: the MonitoringEngine as main runs it: Start, the monitoring loop  *)
(* with its per-pair and per-probe goroutines, the ticker, and Stop.  The  *)
(* clock stands still.                                                     *)

PairName(i) == pairMonitors[i].pairName
Tables(i)   == pairMonitors[i].tables

\* the conversions of monitorDatabasePair to the storage and alert types
ToStorageLag(pairName, metric) ==
    [DatabasePair |-> pairName, Timestamp |-> metric.Timestamp,
     LagSeconds |-> metric.LagSeconds, Status |-> metric.Status, Error |-> metric.Error]
ToAlertLag(metric) ==
    [LagSeconds |-> metric.LagSeconds, Status |-> metric.Status, Error |-> metric.Error]
ToStorageChecksum(pairName, result) ==
    [DatabasePair |-> pairName, TableName |-> result.TableName,
     SourceChecksum |-> result.SourceChecksum, TargetChecksum |-> result.TargetChecksum,
     Match |-> result.Match, Timestamp |-> result.Timestamp, Error |-> result.Error]
ToAlertChecksum(result) ==
    [TableName |-> result.TableName, SourceChecksum |-> result.SourceChecksum,
     TargetChecksum |-> result.TargetChecksum, Match |-> result.Match, Error |-> result.Error]
ToStorageConsistency(pairName, result) ==
    [DatabasePair |-> pairName, TableName |-> result.TableName,
     SourceRowCount |-> result.SourceRowCount, TargetRowCount |-> result.TargetRowCount,
     Consistent |-> result.Consistent, Timestamp |-> result.Timestamp, Error |-> result.Error]
ToAlertConsistency(result) ==
    [TableName |-> result.TableName, SourceRowCount |-> result.SourceRowCount,
     TargetRowCount |-> result.TargetRowCount, Consistent |-> result.Consistent,
     Error |-> result.Error]

loopVars  == <<stopChan, wgLoop, tickerC, loopPc, cycle>>
probeVars == <<lagPc, lagLocal, csPc, csLocal, ccPc, ccLocal>>

\* what no step of the engine touches
EngineFrame == UNCHANGED <<pairMonitors, now, snap, webVars, evalLog, snapAtReturn>>

\* a pair's goroutine of the current cycle has not returned
CycleInFlight(i) == pairPc[i] \in {"health", "wait"}
\* a probe goroutine of pair i has not returned
ProbeActive(i) ==
    \/ lagPc[i] \notin {"idle", "done"}
    \/ csPc[i] \notin {"idle", "done"}
    \/ ccPc[i] \notin {"idle", "done"}

(* main: Start() *)

\* Start, one pair of its loop: ConnectSource, ConnectTarget (failures are
\* logged), HealthCheck, UpdateConnectionStatus
StartPair(i) ==
    /\ mainPc = <<"start", i>>
    /\ \E sa \in Attempts, ta \in Attempts, srcUp \in BOOLEAN, tgtUp \in BOOLEAN :
          LET sc == connectWithRetry(sourceConn[i], sa).conn
              tc == connectWithRetry(targetConn[i], ta).conn
              hc == HealthCheck(sc, tc, srcUp, tgtUp)
          IN  /\ sourceConn' = [sourceConn EXCEPT ![i] = sc]
              /\ targetConn' = [targetConn EXCEPT ![i] = tc]
              /\ UpdateConnectionStatus(PairName(i),
                     [SourceConnected |-> hc.source, TargetConnected |-> hc.target,
                      LastChecked |-> now])
    /\ mainPc' = IF i < NumPairs THEN <<"start", i + 1>> ELSE <<"spawn", 0>>
    /\ UNCHANGED <<alertVars, replicaLagHistory, checksumResults, consistencyResults>>
    /\ UNCHANGED <<loopVars, pairPc, healthOK, probeVars, activeKeys, probed, reach>>
    /\ EngineFrame

\* a monitoringLoop that waits for the first tick before its first cycle
StartLoop_WaitFirst ==
    /\ mainPc = <<"spawn", 0>>
    /\ wgLoop' = wgLoop + 1
    /\ loopPc' = "select"
    /\ mainPc' = <<"running", 0>>
    /\ UNCHANGED <<alertVars, storeVars, connVars, stopChan, tickerC, cycle>>
    /\ UNCHANGED <<pairPc, healthOK, probeVars, activeKeys, probed, reach>>
    /\ EngineFrame

\* Start: me.wg.Add(1); go me.monitoringLoop(); return
StartLoop ==
    /\ mainPc = <<"spawn", 0>>
    /\ wgLoop' = wgLoop + 1
    /\ loopPc' = "cycle"
    /\ mainPc' = <<"running", 0>>
    /\ UNCHANGED <<alertVars, storeVars, connVars, stopChan, tickerC, cycle>>
    /\ UNCHANGED <<pairPc, healthOK, probeVars, activeKeys, probed, reach>>
    /\ EngineFrame

(* main: Stop(), called when the signal arrives *)

\* Stop: close(me.stopChan)
StopSignal ==
    /\ mainPc = <<"running", 0>>
    /\ stopChan' = "closed"
    /\ mainPc' = <<"wait", 0>>
    /\ UNCHANGED <<alertVars, storeVars, connVars, wgLoop, tickerC, loopPc, cycle>>
    /\ UNCHANGED <<pairPc, healthOK, probeVars, activeKeys, probed, reach>>
    /\ EngineFrame

StopWait_NoWait ==
    /\ mainPc = <<"wait", 0>>
    /\ mainPc' = <<"close", 1>>
    /\ UNCHANGED <<alertVars, storeVars, connVars, loopVars>>
    /\ UNCHANGED <<pairPc, healthOK, probeVars, activeKeys, probed, reach>>
    /\ EngineFrame

\* Stop: me.wg.Wait() returns
StopWait ==
    /\ mainPc = <<"wait", 0>>
    /\ wgLoop = 0
    /\ mainPc' = <<"close", 1>>
    /\ UNCHANGED <<alertVars, storeVars, connVars, loopVars>>
    /\ UNCHANGED <<pairPc, healthOK, probeVars, activeKeys, probed, reach>>
    /\ EngineFrame

\* Stop, one pair of its loop: connMgr.Close()
StopClose(i) ==
    /\ mainPc = <<"close", i>>
    /\ sourceConn' = [sourceConn EXCEPT ![i] = CloseConn(sourceConn[i])]
    /\ targetConn' = [targetConn EXCEPT ![i] = CloseConn(targetConn[i])]
    /\ mainPc' = IF i < NumPairs THEN <<"close", i + 1>> ELSE <<"stopped", 0>>
    /\ UNCHANGED <<alertVars, storeVars, loopVars>>
    /\ UNCHANGED <<pairPc, healthOK, probeVars, activeKeys, probed, reach>>
    /\ EngineFrame

(* monitoringLoop and runMonitoringCycle *)

\* a ticker whose channel queues every tick
Tick_Queued ==
    /\ loopPc \in {"cycle", "wait", "select"}
    /\ cycle < MaxCycles
    /\ tickerC < 2
    /\ tickerC' = tickerC + 1
    /\ UNCHANGED <<alertVars, storeVars, connVars, stopChan, wgLoop, loopPc, cycle, mainPc>>
    /\ UNCHANGED <<pairPc, healthOK, probeVars, activeKeys, probed, reach>>
    /\ EngineFrame

\* the ticker delivers a tick; ticker.C holds one, a tick that finds it full
\* is dropped
Tick ==
    /\ loopPc \in {"cycle", "wait", "select"}
    /\ cycle < MaxCycles
    /\ tickerC = 0
    /\ tickerC' = 1
    /\ UNCHANGED <<alertVars, storeVars, connVars, stopChan, wgLoop, loopPc, cycle, mainPc>>
    /\ UNCHANGED <<pairPc, healthOK, probeVars, activeKeys, probed, reach>>
    /\ EngineFrame

\* runMonitoringCycle: one goroutine per pair
LoopSpawn ==
    /\ loopPc = "cycle"
    /\ cycle' = cycle + 1
    /\ pairPc' = [i \in PairIdx |-> "health"]
    /\ loopPc' = "wait"
    /\ UNCHANGED <<alertVars, storeVars, connVars, stopChan, wgLoop, tickerC, mainPc>>
    /\ UNCHANGED <<healthOK, probeVars, activeKeys, probed, reach>>
    /\ EngineFrame

LoopWaitDone_NoWait ==
    /\ loopPc = "wait"
    /\ loopPc' = "select"
    /\ UNCHANGED <<alertVars, storeVars, connVars, stopChan, wgLoop, tickerC, cycle, mainPc>>
    /\ UNCHANGED <<pairPc, healthOK, probeVars, activeKeys, probed, reach>>
    /\ EngineFrame

\* runMonitoringCycle: wg.Wait() returns
LoopWaitDone ==
    /\ loopPc = "wait"
    /\ \A i \in PairIdx : pairPc[i] = "done"
    /\ loopPc' = "select"
    /\ UNCHANGED <<alertVars, storeVars, connVars, stopChan, wgLoop, tickerC, cycle, mainPc>>
    /\ UNCHANGED <<pairPc, healthOK, probeVars, activeKeys, probed, reach>>
    /\ EngineFrame

\* select, case <-ticker.C
LoopSelectTick ==
    /\ loopPc = "select"
    /\ tickerC > 0
    /\ tickerC' = tickerC - 1
    /\ loopPc' = "cycle"
    /\ UNCHANGED <<alertVars, storeVars, connVars, stopChan, wgLoop, cycle, mainPc>>
    /\ UNCHANGED <<pairPc, healthOK, probeVars, activeKeys, probed, reach>>
    /\ EngineFrame

\* select, case <-me.stopChan: return (defer me.wg.Done())
LoopSelectStop ==
    /\ loopPc = "select"
    /\ stopChan = "closed"
    /\ loopPc' = "exited"
    /\ wgLoop' = wgLoop - 1
    /\ UNCHANGED <<alertVars, storeVars, connVars, stopChan, tickerC, cycle, mainPc>>
    /\ UNCHANGED <<pairPc, healthOK, probeVars, activeKeys, probed, reach>>
    /\ EngineFrame

(* monitorDatabasePair and its probe goroutines *)

\* monitorDatabasePair starting its probes without writing the refreshed
\* health to the store
PairHealth_NoStatusWrite(i) ==
    /\ pairPc[i] = "health"
    /\ \E srcUp \in BOOLEAN, tgtUp \in BOOLEAN :
          LET hc == HealthCheck(sourceConn[i], targetConn[i], srcUp, tgtUp)
          IN  /\ healthOK' = [healthOK EXCEPT ![i] = hc]
              /\ reach' = [reach EXCEPT ![i] = [source |-> srcUp, target |-> tgtUp]]
    /\ lagPc' = [lagPc EXCEPT ![i] = "start"]
    /\ csPc' = [csPc EXCEPT ![i] = IF Len(Tables(i)) > 0 THEN "start" ELSE "idle"]
    /\ ccPc' = [ccPc EXCEPT ![i] = IF Len(Tables(i)) > 0 THEN "start" ELSE "idle"]
    /\ probed' = [probed EXCEPT ![i] = {}]
    /\ pairPc' = [pairPc EXCEPT ![i] = "wait"]
    /\ UNCHANGED <<alertVars, storeVars>>
    /\ UNCHANGED <<connVars, loopVars, mainPc, lagLocal, csLocal, ccLocal, activeKeys>>
    /\ EngineFrame

\* monitorDatabasePair up to wg.Wait(): HealthCheck, UpdateConnectionStatus,
\* then the lag goroutine and, if the pair has tables, the checksum and the
\* consistency goroutines are started
PairHealth(i) ==
    /\ pairPc[i] = "health"
    /\ \E srcUp \in BOOLEAN, tgtUp \in BOOLEAN :
          LET hc == HealthCheck(sourceConn[i], targetConn[i], srcUp, tgtUp)
          IN  /\ healthOK' = [healthOK EXCEPT ![i] = hc]
              /\ reach' = [reach EXCEPT ![i] = [source |-> srcUp, target |-> tgtUp]]
              /\ UpdateConnectionStatus(PairName(i),
                     [SourceConnected |-> hc.source, TargetConnected |-> hc.target,
                      LastChecked |-> now])
    /\ lagPc' = [lagPc EXCEPT ![i] = "start"]
    /\ csPc' = [csPc EXCEPT ![i] = IF Len(Tables(i)) > 0 THEN "start" ELSE "idle"]
    /\ ccPc' = [ccPc EXCEPT ![i] = IF Len(Tables(i)) > 0 THEN "start" ELSE "idle"]
    /\ probed' = [probed EXCEPT ![i] = {}]
    /\ pairPc' = [pairPc EXCEPT ![i] = "wait"]
    /\ UNCHANGED <<alertVars, replicaLagHistory, checksumResults, consistencyResults>>
    /\ UNCHANGED <<connVars, loopVars, mainPc, lagLocal, csLocal, ccLocal, activeKeys>>
    /\ EngineFrame

\* monitorDatabasePair returning once every probe has stored its results,
\* without waiting for their evaluation
PairWaitDone_BeforeEval(i) ==
    /\ pairPc[i] = "wait"
    /\ lagPc[i] \in {"idle", "eval", "done"}
    /\ csPc[i] \in {"idle", "eval", "done"}
    /\ ccPc[i] \in {"idle", "eval", "done"}
    /\ pairPc' = [pairPc EXCEPT ![i] = "done"]
    /\ UNCHANGED <<alertVars, storeVars, connVars, loopVars, mainPc>>
    /\ UNCHANGED <<healthOK, probeVars, activeKeys, probed, reach>>
    /\ EngineFrame

\* monitorDatabasePair: wg.Wait() returns, and the pair's goroutine with it
PairWaitDone(i) ==
    /\ pairPc[i] = "wait"
    /\ ~ProbeActive(i)
    /\ pairPc' = [pairPc EXCEPT ![i] = "done"]
    /\ UNCHANGED <<alertVars, storeVars, connVars, loopVars, mainPc>>
    /\ UNCHANGED <<healthOK, probeVars, activeKeys, probed, reach>>
    /\ EngineFrame

LagStart_NeedsBoth(i) ==
    /\ lagPc[i] = "start"
    /\ IF healthOK[i].source /\ healthOK[i].target
       THEN \E resp \in EngineSlaveStatus :
               /\ lagLocal' = [lagLocal EXCEPT ![i] = MeasureLag(targetConn[i], resp)]
               /\ lagPc' = [lagPc EXCEPT ![i] = "store"]
               /\ probed' = [probed EXCEPT ![i] = @ \cup {"lag"}]
       ELSE /\ lagPc' = [lagPc EXCEPT ![i] = "done"]
            /\ UNCHANGED <<lagLocal, probed>>
    /\ UNCHANGED <<alertVars, storeVars, connVars, loopVars, mainPc>>
    /\ UNCHANGED <<pairPc, healthOK, csPc, csLocal, ccPc, ccLocal, activeKeys, reach>>
    /\ EngineFrame

\* the lag goroutine: if targetOK, MeasureLag; else it logs and returns
LagStart(i) ==
    /\ lagPc[i] = "start"
    /\ IF healthOK[i].target
       THEN \E resp \in EngineSlaveStatus :
               /\ lagLocal' = [lagLocal EXCEPT ![i] = MeasureLag(targetConn[i], resp)]
               /\ lagPc' = [lagPc EXCEPT ![i] = "store"]
               /\ probed' = [probed EXCEPT ![i] = @ \cup {"lag"}]
       ELSE /\ lagPc' = [lagPc EXCEPT ![i] = "done"]
            /\ UNCHANGED <<lagLocal, probed>>
    /\ UNCHANGED <<alertVars, storeVars, connVars, loopVars, mainPc>>
    /\ UNCHANGED <<pairPc, healthOK, csPc, csLocal, ccPc, ccLocal, activeKeys, reach>>
    /\ EngineFrame

\* the lag goroutine: me.storage.StoreReplicaLag(storageMetric)
LagStore(i) ==
    /\ lagPc[i] = "store"
    /\ IF lagLocal[i] # NilPtr
       THEN /\ StoreReplicaLag(ToStorageLag(PairName(i), lagLocal[i]))
            /\ lagPc' = [lagPc EXCEPT ![i] = "eval"]
       ELSE /\ lagPc' = [lagPc EXCEPT ![i] = "done"]
            /\ UNCHANGED replicaLagHistory
    /\ UNCHANGED <<alertVars, checksumResults, consistencyResults, connectionStatus>>
    /\ UNCHANGED <<connVars, loopVars, mainPc, pairPc, healthOK>>
    /\ UNCHANGED <<lagLocal, csPc, csLocal, ccPc, ccLocal, activeKeys, probed, reach>>
    /\ EngineFrame

\* the lag goroutine: me.alertMgr.EvaluateReplicaLag(pm.pairName, alertMetric)
LagEval(i) ==
    /\ lagPc[i] = "eval"
    /\ EvaluateReplicaLag(PairName(i), ToAlertLag(lagLocal[i]))
    /\ NoteKey(lagLocal[i], LagKey(PairName(i)), WantsLagAlert(lagLocal[i]))
    /\ lagPc' = [lagPc EXCEPT ![i] = "done"]
    /\ lagLocal' = [lagLocal EXCEPT ![i] = NilPtr]
    /\ UNCHANGED <<storeVars, connVars, loopVars, mainPc, pairPc, healthOK>>
    /\ UNCHANGED <<csPc, csLocal, ccPc, ccLocal, probed, reach>>
    /\ EngineFrame

\* the checksum goroutine: if sourceOK && targetOK, ValidateAllTables; else it
\* logs and returns
CsStart(i) ==
    /\ csPc[i] = "start"
    /\ IF healthOK[i].source /\ healthOK[i].target
       THEN \E answers \in [DOMAIN Tables(i) -> EngineChecksumAnswers] :
               LET results == ValidateAllTables(Tables(i), sourceConn[i], targetConn[i], answers)
               IN  /\ csLocal' = [csLocal EXCEPT ![i] = results]
                   /\ csPc' = [csPc EXCEPT ![i] = IF results = <<>> THEN "done" ELSE "store"]
                   /\ probed' = [probed EXCEPT ![i] = @ \cup {"checksum"}]
       ELSE /\ csPc' = [csPc EXCEPT ![i] = "done"]
            /\ UNCHANGED <<csLocal, probed>>
    /\ UNCHANGED <<alertVars, storeVars, connVars, loopVars, mainPc>>
    /\ UNCHANGED <<pairPc, healthOK, lagPc, lagLocal, ccPc, ccLocal, activeKeys, reach>>
    /\ EngineFrame

\* the checksum goroutine, loop body: StoreChecksumResult of the next result
CsStore(i) ==
    /\ csPc[i] = "store"
    /\ StoreChecksumResult(ToStorageChecksum(PairName(i), Head(csLocal[i])))
    /\ csPc' = [csPc EXCEPT ![i] = "eval"]
    /\ UNCHANGED <<alertVars, replicaLagHistory, consistencyResults, connectionStatus>>
    /\ UNCHANGED <<connVars, loopVars, mainPc, pairPc, healthOK>>
    /\ UNCHANGED <<lagPc, lagLocal, csLocal, ccPc, ccLocal, activeKeys, probed, reach>>
    /\ EngineFrame

\* the checksum goroutine, loop body: EvaluateChecksum of that result
CsEval(i) ==
    /\ csPc[i] = "eval"
    /\ LET result == ToAlertChecksum(Head(csLocal[i]))
       IN  /\ EvaluateChecksum(PairName(i), result)
           /\ NoteKey(result, ChecksumKey(PairName(i), result.TableName),
                      WantsChecksumAlert(result))
    /\ csLocal' = [csLocal EXCEPT ![i] = Tail(@)]
    /\ csPc' = [csPc EXCEPT ![i] = IF Tail(csLocal[i]) = <<>> THEN "done" ELSE "store"]
    /\ UNCHANGED <<storeVars, connVars, loopVars, mainPc, pairPc, healthOK>>
    /\ UNCHANGED <<lagPc, lagLocal, ccPc, ccLocal, probed, reach>>
    /\ EngineFrame

\* the consistency goroutine: if sourceOK && targetOK, CheckAllTables; else it
\* logs and returns
CcStart(i) ==
    /\ ccPc[i] = "start"
    /\ IF healthOK[i].source /\ healthOK[i].target
       THEN \E answers \in [DOMAIN Tables(i) -> EngineCountAnswers] :
               LET results == CheckAllTables(Tables(i), sourceConn[i], targetConn[i], answers)
               IN  /\ ccLocal' = [ccLocal EXCEPT ![i] = results]
                   /\ ccPc' = [ccPc EXCEPT ![i] = IF results = <<>> THEN "done" ELSE "store"]
                   /\ probed' = [probed EXCEPT ![i] = @ \cup {"consistency"}]
       ELSE /\ ccPc' = [ccPc EXCEPT ![i] = "done"]
            /\ UNCHANGED <<ccLocal, probed>>
    /\ UNCHANGED <<alertVars, storeVars, connVars, loopVars, mainPc>>
    /\ UNCHANGED <<pairPc, healthOK, lagPc, lagLocal, csPc, csLocal, activeKeys, reach>>
    /\ EngineFrame

\* the consistency goroutine, loop body: StoreConsistencyResult
CcStore(i) ==
    /\ ccPc[i] = "store"
    /\ StoreConsistencyResult(ToStorageConsistency(PairName(i), Head(ccLocal[i])))
    /\ ccPc' = [ccPc EXCEPT ![i] = "eval"]
    /\ UNCHANGED <<alertVars, replicaLagHistory, checksumResults, connectionStatus>>
    /\ UNCHANGED <<connVars, loopVars, mainPc, pairPc, healthOK>>
    /\ UNCHANGED <<lagPc, lagLocal, csPc, csLocal, ccLocal, activeKeys, probed, reach>>
    /\ EngineFrame

\* the consistency goroutine, loop body: EvaluateConsistency
CcEval(i) ==
    /\ ccPc[i] = "eval"
    /\ LET result == ToAlertConsistency(Head(ccLocal[i]))
       IN  /\ EvaluateConsistency(PairName(i), result)
           /\ NoteKey(result, ConsistencyKey(PairName(i), result.TableName),
                      WantsConsistencyAlert(result))
    /\ ccLocal' = [ccLocal EXCEPT ![i] = Tail(@)]
    /\ ccPc' = [ccPc EXCEPT ![i] = IF Tail(ccLocal[i]) = <<>> THEN "done" ELSE "store"]
    /\ UNCHANGED <<storeVars, connVars, loopVars, mainPc, pairPc, healthOK>>
    /\ UNCHANGED <<lagPc, lagLocal, csPc, csLocal, probed, reach>>
    /\ EngineFrame

Next ==
    \/ \E i \in PairIdx : StartPair(i)
    \/ StartLoop
    \/ StopSignal
    \/ StopWait
    \/ \E i \in PairIdx : StopClose(i)
    \/ Tick
    \/ LoopSpawn
    \/ LoopWaitDone
    \/ LoopSelectTick
    \/ LoopSelectStop
    \/ \E i \in PairIdx : PairHealth(i)
    \/ \E i \in PairIdx : PairWaitDone(i)
    \/ \E i \in PairIdx : LagStart(i)
    \/ \E i \in PairIdx : LagStore(i)
    \/ \E i \in PairIdx : LagEval(i)
    \/ \E i \in PairIdx : CsStart(i)
    \/ \E i \in PairIdx : CsStore(i)
    \/ \E i \in PairIdx : CsEval(i)
    \/ \E i \in PairIdx : CcStart(i)
    \/ \E i \in PairIdx : CcStore(i)
    \/ \E i \in PairIdx : CcEval(i)

\* the configuration Spec runs: a pair with a monitored table, and a pair
\* with none
InitSpec ==
    /\ Init
    /\ pairMonitors = << [pairName |-> "a",   tables |-> <<"t">>],
                         [pairName |-> "a_b", tables |-> <<>>] >>

Spec == InitSpec /\ [][Next]_vars

-----------------------------------------------------------------------------
(* Properties of the engine, checked under Spec *)

\* a goroutine of some cycle (a pair's, or one of its probes) is running
SomeGoroutineRunning == \E i \in PairIdx : CycleInFlight(i) \/ ProbeActive(i)

C6_GoroutinesOnlyInsideCycle == SomeGoroutineRunning => loopPc = "wait"
C6_CycleStartsWhenIdle == cycle' # cycle => ~SomeGoroutineRunning

\* C6: cycles never overlap: goroutines of a cycle run only while the loop is
\* inside runMonitoringCycle waiting for them, and a cycle starts only when
\* no pair goroutine and no probe goroutine of an earlier cycle is running.
C6_CyclesNeverOverlap ==
    /\ []C6_GoroutinesOnlyInsideCycle
    /\ [][C6_CycleStartsWhenIdle]_vars

\* a later cycle is in flight, with a probe of it running
C6_Witness ==
    /\ cycle >= 2
    /\ loopPc = "wait"
    /\ \E i \in PairIdx : ProbeActive(i)

SomeConnClosed ==
    \E i \in PairIdx : sourceConn[i] = "closed" \/ targetConn[i] = "closed"
StopClosing == mainPc[1] \in {"close", "stopped"}

C7_StateOrder ==
    /\ mainPc[1] \in {"wait", "close", "stopped"} => stopChan = "closed"
    /\ StopClosing => loopPc = "exited" /\ ~SomeGoroutineRunning
    /\ SomeConnClosed => StopClosing
C7_NoWriteOnceWaitReturned == StopClosing => UNCHANGED <<storeVars, alertVars>>

\* C7: Stop closes stopChan first; it closes connections only after the loop
\* has exited with no pair or probe goroutine running, so no connection is
\* closed under a running probe; and from the moment its wait has returned
\* nothing is written to the storage or the alert manager.
C7_StopOrdering ==
    /\ []C7_StateOrder
    /\ [][C7_NoWriteOnceWaitReturned]_vars

\* Stop has returned after a cycle that stored a measurement, and it closed a
\* connection
C7_Witness ==
    /\ mainPc = <<"stopped", 0>>
    /\ SomeConnClosed
    /\ cycle >= 1
    /\ Len(replicaLagHistory) > 0

\* C8: in a cycle after the first, a side whose database answers at the
\* cycle's health check is reported healthy by that cycle (the connection
\* that failed during Start has been retried).
C8_RetriedEveryCycle ==
    \A i \in PairIdx :
        cycle >= 2 /\ pairPc[i] \in {"wait", "done"} =>
            /\ reach[i].source => healthOK[i].source
            /\ reach[i].target => healthOK[i].target

\* C9: the lag probe runs iff targetOK; the checksum and consistency probes
\* run iff sourceOK and targetOK and the pair has a table.  "Only if" holds at
\* every moment, "if" once the pair's cycle has returned.
C9_ProbeGating ==
    \A i \in PairIdx :
        LET both == healthOK[i].source /\ healthOK[i].target /\ Len(Tables(i)) > 0
        IN  /\ "lag" \in probed[i] => healthOK[i].target
            /\ "checksum" \in probed[i] => both
            /\ "consistency" \in probed[i] => both
            /\ pairPc[i] = "done" =>
                  /\ healthOK[i].target => "lag" \in probed[i]
                  /\ both => {"checksum", "consistency"} \subseteq probed[i]

\* a pair with a table, source down and target up: its cycle has returned,
\* having run the lag probe only, and its measurement is in the history
C9_Witness ==
    \E i \in PairIdx :
        /\ pairPc[i] = "done"
        /\ Len(Tables(i)) > 0
        /\ ~healthOK[i].source
        /\ healthOK[i].target
        /\ probed[i] = {"lag"}
        /\ \E k \in DOMAIN replicaLagHistory :
              replicaLagHistory[k].DatabasePair = PairName(i)

-----------------------------------------------------------------------------
(* The latest lag of a pair, checked under StoreSpec *)

-----------------------------------------------------------------------------
(* RetentionSpec: the lag history written at the engine's cadence: in each *)
(* monitoring interval every pair's lag goroutine stores at most one       *)
(* measurement, stamped with the current time.  One unit of the clock is   *)
(* one monitoring interval.                                                *)

RetentionFrame ==
    UNCHANGED <<alertVars, snap, connVars, engineVars, webVars, activeKeys, evalLog, reach, snapAtReturn>>

\* the lag goroutine of pair i in the cycle of this interval
CycleStoreLag(i) ==
    /\ "lag" \notin probed[i]
    /\ StoreReplicaLag([DatabasePair |-> PairName(i), Timestamp |-> now, LagSeconds |-> 0,
                        Status |-> "ok", Error |-> ErrNil])
    /\ probed' = [probed EXCEPT ![i] = @ \cup {"lag"}]
    /\ UNCHANGED <<checksumResults, consistencyResults, connectionStatus, now>>
    /\ RetentionFrame

\* the next tick of the ticker: the next interval and its cycle begin
NextInterval ==
    /\ AdvanceClock
    /\ probed' = [i \in PairIdx |-> {}]
    /\ UNCHANGED storeVars
    /\ RetentionFrame

NextRetention ==
    \/ \E i \in PairIdx : CycleStoreLag(i)
    \/ NextInterval

RetentionSpec == InitStoreSpec /\ [][NextRetention]_vars

C12_StepKeepsRecent ==
    \A k \in DOMAIN replicaLagHistory :
        now' - replicaLagHistory[k].Timestamp < historyDuration =>
            \E j \in DOMAIN GetReplicaLagHistory(historyDuration)' :
                GetReplicaLagHistory(historyDuration)'[j] = replicaLagHistory[k]

\* C12: a stored measurement that is less than historyDuration old is still
\* returned by GetReplicaLagHistory(historyDuration) after every step: no
\* write, of its pair or of another, evicts it.
C12_RecentKept == [][C12_StepKeepsRecent]_vars

-----------------------------------------------------------------------------
(* ProbeSpec: the three probes called on connection handles in any state,  *)
(* with any answer of the databases; each call leaves its result in the    *)
(* caller's local.  The clock stands still.                                *)

ConnStates == {"nil", "open", "closed"}

QueryFails == [SlaveStatus("absent", "absent", FALSE, 0) EXCEPT !.queryErr = TRUE, !.hasRow = FALSE]
NoRows     == [SlaveStatus("absent", "absent", FALSE, 0) EXCEPT !.hasRow = FALSE]
RowFails   == [SlaveStatus("absent", "absent", FALSE, 0) EXCEPT !.rowErr = TRUE]

\* rows as the driver returns them: the thread columns with the lag column
\* missing, NULL, an integer, a numeral as text, or text that is no number
RawRows ==
    {<<"Yes", "Yes", raw>> : raw \in {RawMissing, RawNull, RawInt64(0), RawBytes("0"),
                                      RawBytes("61"), RawBytes(""), RawBytes("NULL")}}
      \cup {<<"No", "Yes", RawBytes("61")>>, <<"Yes", "No", RawNull>>}

\* the answers to SHOW SLAVE STATUS: failures; rows whose lag is NULL, with
\* both threads running or one thread column unreadable; rows with both
\* threads running and a lag of zero, at the threshold or above it; rows
\* with a stopped thread and a numeric lag
SlaveStatusAnswers ==
    {QueryFails, NoRows, RowFails}
      \cup {SlaveStatus("Yes", "Yes", FALSE, 0), SlaveStatus("absent", "Yes", FALSE, 0),
            SlaveStatus("Yes", "absent", TRUE, 0)}
      \cup {SlaveStatus("Yes", "Yes", TRUE, ms) : ms \in {0, ReplicaLagThreshold, 61000}}
      \cup {SlaveStatus("No", "Yes", TRUE, 61000), SlaveStatus("Yes", "No", TRUE, 0)}
      \cup {SlaveStatusRow(r[1], r[2], r[3]) : r \in RawRows}

\* the answers to a table's checksum queries and row counts
ChecksumAnswers ==
    {TableAnswer(FALSE, "AAA", FALSE, "AAA"), TableAnswer(FALSE, "AAA", FALSE, "BBB"),
     TableAnswer(TRUE, "", FALSE, "AAA"), TableAnswer(FALSE, "AAA", TRUE, "")}
CountAnswers ==
    {TableAnswer(FALSE, 100, FALSE, 100), TableAnswer(FALSE, 100, FALSE, 98),
     TableAnswer(TRUE, 0, FALSE, 100), TableAnswer(FALSE, 100, TRUE, 0)}

\* a pair with two tables whose handles are in any state, and a pair with no
\* table whose handles were never set
InitProbeSpec ==
    /\ InitAlertManager
    /\ InitMetricsStorage
    /\ InitEngine
    /\ InitHistory
    /\ InitWebServer
    /\ now = 0
    /\ snap = NilPtr
    /\ pairMonitors = << [pairName |-> "a",   tables |-> <<"t", "b_t">>],
                         [pairName |-> "a_b", tables |-> <<>>] >>
    /\ \E s \in ConnStates, t \in ConnStates :
          /\ sourceConn = [i \in PairIdx |-> IF i = 1 THEN s ELSE "nil"]
          /\ targetConn = [i \in PairIdx |-> IF i = 1 THEN t ELSE "nil"]

ProbeFrame ==
    UNCHANGED <<storeVars, now, snap, connVars, webVars, pairMonitors, loopVars, mainPc,
                pairPc, healthOK, reach, snapAtReturn>>

\* metric, err := pm.replicaLagMonitor.MeasureLag()
CallMeasureLag(i) ==
    /\ \E resp \in SlaveStatusAnswers :
          lagLocal' = [lagLocal EXCEPT ![i] = MeasureLag(targetConn[i], resp)]
    /\ lagPc' = [lagPc EXCEPT ![i] = "store"]
    /\ probed' = [probed EXCEPT ![i] = @ \cup {"lag"}]
    /\ UNCHANGED <<alertVars, csPc, csLocal, ccPc, ccLocal, activeKeys, evalLog>>
    /\ ProbeFrame

\* results, err := pm.checksumValidator.ValidateAllTables(pm.tables)
CallValidateAllTables(i) ==
    /\ \E answers \in [DOMAIN Tables(i) -> ChecksumAnswers] :
          csLocal' = [csLocal EXCEPT ![i] =
                         ValidateAllTables(Tables(i), sourceConn[i], targetConn[i], answers)]
    /\ csPc' = [csPc EXCEPT ![i] = "store"]
    /\ probed' = [probed EXCEPT ![i] = @ \cup {"checksum"}]
    /\ UNCHANGED <<alertVars, lagPc, lagLocal, ccPc, ccLocal, activeKeys, evalLog>>
    /\ ProbeFrame

\* results, err := pm.consistencyChecker.CheckAllTables(pm.tables)
CallCheckAllTables(i) ==
    /\ \E answers \in [DOMAIN Tables(i) -> CountAnswers] :
          ccLocal' = [ccLocal EXCEPT ![i] =
                         CheckAllTables(Tables(i), sourceConn[i], targetConn[i], answers)]
    /\ ccPc' = [ccPc EXCEPT ![i] = "store"]
    /\ probed' = [probed EXCEPT ![i] = @ \cup {"consistency"}]
    /\ UNCHANGED <<alertVars, lagPc, lagLocal, csPc, csLocal, activeKeys, evalLog>>
    /\ ProbeFrame

NextProbe ==
    \/ \E i \in PairIdx : CallMeasureLag(i)
    \/ \E i \in PairIdx : CallValidateAllTables(i)
    \/ \E i \in PairIdx : CallCheckAllTables(i)

ProbeSpec == InitProbeSpec /\ [][NextProbe]_vars

\* the statuses a lag metric can carry
LagStatuses ==
    {"connection_error", "query_error", "no_replication", "error", "status_unknown",
     "replication_stopped", "ok", "lag_unknown"}

\* C17: a probe that was called has left a result: MeasureLag a metric that
\* is not nil, with one of the statuses and, unless the status is ok, an
\* error; ValidateAllTables and CheckAllTables one result per table of the
\* pair, in table order, whichever of the tables failed.
C17_ProbesAlwaysYield ==
    \A i \in PairIdx :
        /\ "lag" \in probed[i] =>
              /\ lagLocal[i] # NilPtr
              /\ lagLocal[i].Status \in LagStatuses
              /\ lagLocal[i].Status # "ok" => ~lagLocal[i].Error.nil
        /\ "checksum" \in probed[i] =>
              /\ Len(csLocal[i]) = Len(Tables(i))
              /\ \A k \in DOMAIN csLocal[i] : csLocal[i][k].TableName = Tables(i)[k]
        /\ "consistency" \in probed[i] =>
              /\ Len(ccLocal[i]) = Len(Tables(i))
              /\ \A k \in DOMAIN ccLocal[i] : ccLocal[i][k].TableName = Tables(i)[k]

\* the lag probe returned an error metric; the first table's checksum and
\* row count failed and the second table's were still obtained
C17_Witness ==
    /\ probed[1] = {"lag", "checksum", "consistency"}
    /\ lagLocal[1].Status = "query_error"
    /\ ~csLocal[1][1].Error.nil /\ csLocal[1][2].Error.nil /\ csLocal[1][2].Match
    /\ ~ccLocal[1][1].Error.nil /\ ccLocal[1][2].Error.nil /\ ccLocal[1][2].Consistent

-----------------------------------------------------------------------------
(* LagRuleSpec: the lag probe called with any answer, and its metric       *)
(* passed to the alert manager as the lag goroutine does.                  *)

\* me.alertMgr.EvaluateReplicaLag(pm.pairName, alertMetric) on the metric
\* MeasureLag returned
EvaluateMeasured(i) ==
    /\ lagPc[i] = "store"
    /\ Len(evalLog) < MaxEvals
    /\ LET m == ToAlertLag(lagLocal[i])
       IN  /\ EvaluateReplicaLag(PairName(i), m)
           /\ NoteKey(m, LagKey(PairName(i)), WantsLagAlert(m))
           /\ NoteEval("lag", PairName(i), m)
    /\ lagPc' = [lagPc EXCEPT ![i] = "done"]
    /\ lagLocal' = [lagLocal EXCEPT ![i] = NilPtr]
    /\ UNCHANGED <<csPc, csLocal, ccPc, ccLocal, probed>>
    /\ ProbeFrame

NextLagRule ==
    \/ \E i \in PairIdx : CallMeasureLag(i)
    \/ \E i \in PairIdx : EvaluateMeasured(i)

InitLagRuleSpec ==
    /\ InitProbeSpec
    /\ sourceConn[1] = "open"

LagRuleSpec == InitLagRuleSpec /\ [][NextLagRule]_vars

C14_LagRuleStep ==
    (IsEvalStep /\ ThisEval.method = "lag" /\ ThisEval.arg # NilPtr) =>
        LET m   == ThisEval.arg
            key == LagKey(ThisEval.pairName)
        IN  IF m.Status = "ok" /\ m.LagSeconds > ReplicaLagThreshold
            THEN key \in DOMAIN activeAlerts' /\ activeAlerts'[key].Severity = "WARNING"
            ELSE IF m.Status = "replication_stopped"
            THEN key \in DOMAIN activeAlerts'
            ELSE key \notin DOMAIN activeAlerts'

\* C14: an evaluated lag metric with status ok and a lag above the threshold
\* leaves the pair's lag alert active with severity WARNING; one that is
\* neither that nor replication_stopped leaves no active lag alert for the
\* pair.
C14_LagRule == [][C14_LagRuleStep]_vars

\* a WARNING was raised for a lag above the threshold, and the next metric of
\* that pair, with a lag equal to the threshold, has resolved it
C14_Witness ==
    /\ Len(evalLog) = 2
    /\ evalLog[1].pairName = evalLog[2].pairName
    /\ AboveThreshold(evalLog[1])
    /\ evalLog[2].arg.Status = "ok" /\ evalLog[2].arg.LagSeconds = ReplicaLagThreshold
    /\ Len(alerts) = 1 /\ alerts[1].Severity = "WARNING"
    /\ LagKey(evalLog[2].pairName) \notin DOMAIN activeAlerts

-----------------------------------------------------------------------------
(* The alert rules, checked under AlertSpec *)

\* the string s occurs in msg
Contains(msg, s) ==
    \E k \in 1..(Len(msg) - Len(s) + 1) : SubSeq(msg, k, k + Len(s) - 1) = s

C13_StoppedStep ==
    (IsEvalStep /\ ThisEval.method = "lag" /\ ThisEval.arg # NilPtr
                /\ ThisEval.arg.Status = "replication_stopped") =>
        LET key == LagKey(ThisEval.pairName)
        IN  /\ key \in DOMAIN activeAlerts'
            /\ activeAlerts'[key].Severity = "CRITICAL"
            /\ Contains(activeAlerts'[key].Message, "[" \o ThisEval.pairName \o "]")

C13_ProbeZeroes ==
    \A conn \in ConnStates, resp \in SlaveStatusAnswers :
        MeasureLag(conn, resp).Status = "replication_stopped" =>
            MeasureLag(conn, resp).LagSeconds = 0

\* C13: an evaluated lag metric with status replication_stopped leaves the
\* pair's lag alert active with severity CRITICAL and a message that names
\* the pair, whatever LagSeconds it carries; and MeasureLag returns
\* LagSeconds = 0 with every replication_stopped metric.
C13_StoppedIsCritical == [][C13_StoppedStep]_vars /\ []C13_ProbeZeroes

\* a WARNING was active for a lag above the threshold; a replication_stopped
\* metric carrying a lag above the threshold has replaced it with a CRITICAL
C13_Witness ==
    /\ Len(evalLog) = 2
    /\ evalLog[1].pairName = evalLog[2].pairName
    /\ AboveThreshold(evalLog[1])
    /\ evalLog[2].method = "lag" /\ evalLog[2].arg # NilPtr
    /\ evalLog[2].arg.Status = "replication_stopped"
    /\ evalLog[2].arg.LagSeconds > ReplicaLagThreshold
    /\ Len(alerts) = 2
    /\ activeAlerts[LagKey(evalLog[2].pairName)].Severity = "CRITICAL"

\* an entry of evalLog is a table result, and whether it reports a difference
IsTableEval(e) == e.method \in {"checksum", "consistency"} /\ e.arg # NilPtr
Differs(e)     == IF e.method = "checksum" THEN ~e.arg.Match ELSE ~e.arg.Consistent

C15_TableRuleStep ==
    (IsEvalStep /\ IsTableEval(ThisEval)) =>
        LET key == EvalKey(ThisEval)
        IN  IF ~ThisEval.arg.Error.nil
            THEN key \in DOMAIN activeAlerts' /\ activeAlerts'[key].Severity = "WARNING"
            ELSE IF Differs(ThisEval)
            THEN key \in DOMAIN activeAlerts' /\ activeAlerts'[key].Severity = "CRITICAL"
            ELSE key \notin DOMAIN activeAlerts'

\* C15: an evaluated checksum or consistency result that carries an error
\* leaves the condition's alert active with severity WARNING; one that
\* differs without an error leaves it active with severity CRITICAL; one
\* that agrees without an error leaves no active alert for the condition.
C15_TableRule == [][C15_TableRuleStep]_vars

\* a row count mismatch raised a CRITICAL; a failed count of the same table
\* has replaced it with a WARNING
C15_Witness ==
    /\ Len(evalLog) = 2
    /\ evalLog[1].method = "consistency" /\ SameCondition(evalLog[1], evalLog[2])
    /\ ~evalLog[1].arg.Consistent /\ evalLog[1].arg.Error.nil
    /\ ~evalLog[2].arg.Error.nil
    /\ Len(alerts) = 2 /\ alerts[1].Severity = "CRITICAL"
    /\ activeAlerts[EvalKey(evalLog[2])].Severity = "WARNING"

\* the conditions: (kind, pair, table), with no table for the lag
Conditions ==
    {<<"lag", p, "">> : p \in PairNames}
      \cup {<<k, sub[1], sub[2]>> : k \in {"checksum", "consistency"}, sub \in Subjects}

ConditionKey(c) ==
    CASE c[1] = "lag"         -> LagKey(c[2])
      [] c[1] = "checksum"    -> ChecksumKey(c[2], c[3])
      [] c[1] = "consistency" -> ConsistencyKey(c[2], c[3])

\* the alert state the manager holds for a condition, in a given active index
ConditionState(active, c) ==
    IF ConditionKey(c) \in DOMAIN active THEN active[ConditionKey(c)] ELSE NilPtr

C16_FrameStep ==
    (IsEvalStep /\ IsTableEval(ThisEval)) =>
        \A c \in Conditions :
            c # <<ThisEval.method, ThisEval.pairName, ThisEval.arg.TableName>> =>
                ConditionState(activeAlerts', c) = ConditionState(activeAlerts, c)

\* C16: evaluating a checksum or consistency result of (pair, table) leaves
\* the alert state of every other condition (kind, pair, table) as it was.
C16_OtherConditionsUntouched == [][C16_FrameStep]_vars

(***************************************************************************)
(* Connection failures as measurements (engine, Spec).                     *)
(***************************************************************************)

\* the stored lag entries of pair i
LagEntries(i) ==
    {k \in DOMAIN replicaLagHistory : replicaLagHistory[k].DatabasePair = PairName(i)}

\* a checksum (consistency) result carrying an error is stored for every table of pair i
ChecksumErrorsStored(i) ==
    \A k \in DOMAIN Tables(i) :
        LET key == ResultKey(PairName(i), Tables(i)[k])
        IN  key \in DOMAIN checksumResults /\ ~checksumResults[key].Error.nil
ConsistencyErrorsStored(i) ==
    \A k \in DOMAIN Tables(i) :
        LET key == ResultKey(PairName(i), Tables(i)[k])
        IN  key \in DOMAIN consistencyResults /\ ~consistencyResults[key].Error.nil

\* C18: when the first cycle of a pair has finished with a side found
\* unreachable by the health check, the store holds an error measurement of
\* every probe that needed that side: a lag entry whose status is not ok when
\* the target was down, an error-carrying checksum and consistency result for
\* each table when either side was down.  (The clock stands still during the
\* first cycle and the store starts empty, so every entry of the pair is of
\* this cycle.)
C18_FailureRecorded ==
    \A i \in 1..NumPairs :
        (cycle = 1 /\ pairPc[i] = "done") =>
            /\ ~healthOK[i].target =>
                   \E k \in LagEntries(i) : replicaLagHistory[k].Status # "ok"
            /\ (~healthOK[i].source \/ ~healthOK[i].target) =>
                   ChecksumErrorsStored(i) /\ ConsistencyErrorsStored(i)

(***************************************************************************)
(* The engine with failing databases (FaultSpec): one monitoring cycle     *)
(* after a Start that connected both sides of both pairs, in which a ping   *)
(* may fail, a query may return an error, and the SHOW SLAVE STATUS query   *)
(* may never answer; the stop signal may arrive at any moment.              *)
(***************************************************************************)

\* the answers of the databases in FaultSpec
FaultSlaveStatus     == {SlaveStatus("Yes", "Yes", TRUE, 0), QueryFails}
FaultChecksumAnswers == {TableAnswer(FALSE, "AAA", FALSE, "BBB"), TableAnswer(TRUE, "", FALSE, "AAA")}
FaultCountAnswers    == {TableAnswer(FALSE, 100, FALSE, 100), TableAnswer(FALSE, 100, TRUE, 0)}

\* the state Start leaves when every connection attempt and ping succeeded:
\* handles open, both pairs reported connected, monitoringLoop spawned
InitStarted ==
    /\ InitAlertManager
    /\ InitHistory
    /\ InitWebServer
    /\ now = 0
    /\ snap = NilPtr
    /\ pairMonitors \in Configs
    /\ replicaLagHistory = <<>>
    /\ checksumResults = <<>>
    /\ consistencyResults = <<>>
    /\ connectionStatus =
          [p \in {"a", "a_b"} |->
              [SourceConnected |-> TRUE, TargetConnected |-> TRUE, LastChecked |-> 0]]
    /\ sourceConn = [i \in PairIdx |-> "open"]
    /\ targetConn = [i \in PairIdx |-> "open"]
    /\ stopChan = "open"
    /\ wgLoop = 1
    /\ tickerC = 0
    /\ mainPc = <<"running", 0>>
    /\ loopPc = "cycle"
    /\ cycle = 0
    /\ pairPc = [i \in PairIdx |-> "idle"]
    /\ healthOK = [i \in PairIdx |-> [source |-> FALSE, target |-> FALSE]]
    /\ lagPc = [i \in PairIdx |-> "idle"]
    /\ lagLocal = [i \in PairIdx |-> NilPtr]
    /\ csPc = [i \in PairIdx |-> "idle"]
    /\ csLocal = [i \in PairIdx |-> <<>>]
    /\ ccPc = [i \in PairIdx |-> "idle"]
    /\ ccLocal = [i \in PairIdx |-> <<>>]

\* FaultSpec runs the configuration of Spec
InitFaultSpec ==
    /\ InitStarted
    /\ pairMonitors = << [pairName |-> "a",   tables |-> <<"t">>],
                         [pairName |-> "a_b", tables |-> <<>>] >>

\* the lag goroutine: if targetOK, MeasureLag, whose query returns
LagProbe(i) ==
    /\ lagPc[i] = "start"
    /\ IF healthOK[i].target
       THEN \E resp \in FaultSlaveStatus :
               /\ lagLocal' = [lagLocal EXCEPT ![i] = MeasureLag(targetConn[i], resp)]
               /\ lagPc' = [lagPc EXCEPT ![i] = "store"]
               /\ probed' = [probed EXCEPT ![i] = @ \cup {"lag"}]
       ELSE /\ lagPc' = [lagPc EXCEPT ![i] = "done"]
            /\ UNCHANGED <<lagLocal, probed>>
    /\ UNCHANGED <<alertVars, storeVars, connVars, loopVars, mainPc>>
    /\ UNCHANGED <<pairPc, healthOK, csPc, csLocal, ccPc, ccLocal, activeKeys, reach>>
    /\ EngineFrame

\* the lag goroutine: MeasureLag calls targetConn.Query("SHOW SLAVE STATUS")
\* and the server never answers.  Query is called without a context, and the
\* DSN sets no timeout, readTimeout or writeTimeout: the goroutine stays in
\* the call
LagQueryHangs(i) ==
    /\ lagPc[i] = "start"
    /\ healthOK[i].target
    /\ lagPc' = [lagPc EXCEPT ![i] = "query"]
    /\ probed' = [probed EXCEPT ![i] = @ \cup {"lag"}]
    /\ UNCHANGED <<alertVars, storeVars, connVars, loopVars, mainPc>>
    /\ UNCHANGED <<pairPc, healthOK, lagLocal, csPc, csLocal, ccPc, ccLocal, activeKeys, reach>>
    /\ EngineFrame

\* the lag probe of pair i returned an error (in flight, or stored)
LagFailed(i) ==
    \/ lagLocal[i] # NilPtr /\ ~lagLocal[i].Error.nil
    \/ \E k \in LagEntries(i) : replicaLagHistory[k].Status # "ok"

CsProbe_AbortOnLagError(i) ==
    /\ csPc[i] = "start"
    /\ IF healthOK[i].source /\ healthOK[i].target /\ ~LagFailed(i)
       THEN \E answers \in [DOMAIN Tables(i) -> FaultChecksumAnswers] :
               LET results == ValidateAllTables(Tables(i), sourceConn[i], targetConn[i], answers)
               IN  /\ csLocal' = [csLocal EXCEPT ![i] = results]
                   /\ csPc' = [csPc EXCEPT ![i] = IF results = <<>> THEN "done" ELSE "store"]
                   /\ probed' = [probed EXCEPT ![i] = @ \cup {"checksum"}]
       ELSE /\ csPc' = [csPc EXCEPT ![i] = "done"]
            /\ UNCHANGED <<csLocal, probed>>
    /\ UNCHANGED <<alertVars, storeVars, connVars, loopVars, mainPc>>
    /\ UNCHANGED <<pairPc, healthOK, lagPc, lagLocal, ccPc, ccLocal, activeKeys, reach>>
    /\ EngineFrame

\* the checksum goroutine: if sourceOK && targetOK, ValidateAllTables
CsProbe(i) ==
    /\ csPc[i] = "start"
    /\ IF healthOK[i].source /\ healthOK[i].target
       THEN \E answers \in [DOMAIN Tables(i) -> FaultChecksumAnswers] :
               LET results == ValidateAllTables(Tables(i), sourceConn[i], targetConn[i], answers)
               IN  /\ csLocal' = [csLocal EXCEPT ![i] = results]
                   /\ csPc' = [csPc EXCEPT ![i] = IF results = <<>> THEN "done" ELSE "store"]
                   /\ probed' = [probed EXCEPT ![i] = @ \cup {"checksum"}]
       ELSE /\ csPc' = [csPc EXCEPT ![i] = "done"]
            /\ UNCHANGED <<csLocal, probed>>
    /\ UNCHANGED <<alertVars, storeVars, connVars, loopVars, mainPc>>
    /\ UNCHANGED <<pairPc, healthOK, lagPc, lagLocal, ccPc, ccLocal, activeKeys, reach>>
    /\ EngineFrame

\* the consistency goroutine: if sourceOK && targetOK, CheckAllTables
CcProbe(i) ==
    /\ ccPc[i] = "start"
    /\ IF healthOK[i].source /\ healthOK[i].target
       THEN \E answers \in [DOMAIN Tables(i) -> FaultCountAnswers] :
               LET results == CheckAllTables(Tables(i), sourceConn[i], targetConn[i], answers)
               IN  /\ ccLocal' = [ccLocal EXCEPT ![i] = results]
                   /\ ccPc' = [ccPc EXCEPT ![i] = IF results = <<>> THEN "done" ELSE "store"]
                   /\ probed' = [probed EXCEPT ![i] = @ \cup {"consistency"}]
       ELSE /\ ccPc' = [ccPc EXCEPT ![i] = "done"]
            /\ UNCHANGED <<ccLocal, probed>>
    /\ UNCHANGED <<alertVars, storeVars, connVars, loopVars, mainPc>>
    /\ UNCHANGED <<pairPc, healthOK, lagPc, lagLocal, csPc, csLocal, activeKeys, reach>>
    /\ EngineFrame

\* the steps of each goroutine
MainStep    == StopSignal \/ StopWait \/ \E i \in PairIdx : StopClose(i)
LoopStep    == LoopSpawn \/ LoopWaitDone \/ LoopSelectStop
PairStep(i) == PairHealth(i) \/ PairWaitDone(i)
LagStep(i)  == LagProbe(i) \/ LagQueryHangs(i) \/ LagStore(i) \/ LagEval(i)
CsStep(i)   == CsProbe(i) \/ CsStore(i) \/ CsEval(i)
CcStep(i)   == CcProbe(i) \/ CcStore(i) \/ CcEval(i)

NextFault ==
    \/ StopSignal
    \/ StopWait
    \/ \E i \in PairIdx : StopClose(i)
    \/ LoopSpawn
    \/ LoopWaitDone
    \/ LoopSelectStop
    \/ \E i \in PairIdx : PairHealth(i)
    \/ \E i \in PairIdx : PairWaitDone(i)
    \/ \E i \in PairIdx : LagProbe(i)
    \/ \E i \in PairIdx : LagQueryHangs(i)
    \/ \E i \in PairIdx : LagStore(i)
    \/ \E i \in PairIdx : LagEval(i)
    \/ \E i \in PairIdx : CsProbe(i)
    \/ \E i \in PairIdx : CsStore(i)
    \/ \E i \in PairIdx : CsEval(i)
    \/ \E i \in PairIdx : CcProbe(i)
    \/ \E i \in PairIdx : CcStore(i)
    \/ \E i \in PairIdx : CcEval(i)

\* the Go scheduler runs every goroutine that can take a step
FaultFairness ==
    /\ WF_vars(MainStep)
    /\ WF_vars(LoopStep)
    /\ \A i \in PairIdx :
          WF_vars(PairStep(i)) /\ WF_vars(LagStep(i)) /\ WF_vars(CsStep(i)) /\ WF_vars(CcStep(i))

FaultSpec == InitFaultSpec /\ [][NextFault]_vars /\ FaultFairness

\* C19: a lag probe whose query never answers still ends, with a query_error
\* metric to store; so every cycle that was started completes, and Stop,
\* once called, returns.
C19_HungQueryTimesOut ==
    /\ \A i \in PairIdx :
          (lagPc[i] = "query") ~>
              (lagPc[i] = "store" /\ lagLocal[i] # NilPtr /\ lagLocal[i].Status = "query_error")
    /\ (loopPc = "wait") ~> (loopPc = "select")
    /\ (mainPc = <<"wait", 0>>) ~> (mainPc = <<"stopped", 0>>)

\* C20: whatever the probes of a cycle returned, every probe whose sides the
\* health check found up has run and, once its goroutine returned, has its
\* results in the store: the pair's lag entry, and a checksum and a
\* consistency result for each table.  This holds of each pair whatever the
\* other pair's probes did, and of each probe whatever the pair's other
\* probes did.
C20_ErrorsNeverAbort ==
    \A i \in PairIdx :
        /\ (lagPc[i] = "done" /\ healthOK[i].target) =>
               "lag" \in probed[i] /\ LagEntries(i) # {}
        /\ (csPc[i] = "done" /\ healthOK[i].source /\ healthOK[i].target) =>
               /\ "checksum" \in probed[i]
               /\ \A k \in DOMAIN Tables(i) :
                      ResultKey(PairName(i), Tables(i)[k]) \in DOMAIN checksumResults
        /\ (ccPc[i] = "done" /\ healthOK[i].source /\ healthOK[i].target) =>
               /\ "consistency" \in probed[i]
               /\ \A k \in DOMAIN Tables(i) :
                      ResultKey(PairName(i), Tables(i)[k]) \in DOMAIN consistencyResults

\* pair a's lag query failed and its checksum probe returned an error, both
\* recorded next to a clean consistency result, and pair a_b finished its
\* cycle with its lag measured and stored
C20_Witness ==
    /\ pairPc[1] = "done" /\ pairPc[2] = "done"
    /\ \E k \in LagEntries(1) : replicaLagHistory[k].Status = "query_error"
    /\ ChecksumErrorsStored(1)
    /\ ResultKey("a", "t") \in DOMAIN consistencyResults
    /\ consistencyResults[ResultKey("a", "t")].Error.nil
    /\ \E k \in LagEntries(2) : replicaLagHistory[k].Status = "ok"

(***************************************************************************)
(* The table probes table by table (TableSpec): one monitoring cycle in    *)
(* which ValidateAllTables is followed through its loop over the tables,   *)
(* for a pair with two tables.                                             *)
(***************************************************************************)

InitTableSpec ==
    /\ InitStarted
    /\ pairMonitors = << [pairName |-> "a",   tables |-> <<"t", "b_t">>],
                         [pairName |-> "a_b", tables |-> <<>>] >>

\* the checksum goroutine: if sourceOK && targetOK it calls ValidateAllTables,
\* which allocates its results slice; else it logs and returns
CsBegin(i) ==
    /\ csPc[i] = "start"
    /\ IF healthOK[i].source /\ healthOK[i].target
       THEN /\ csLocal' = [csLocal EXCEPT ![i] = <<>>]
            /\ csPc' = [csPc EXCEPT ![i] = IF Len(Tables(i)) = 0 THEN "done" ELSE "probe"]
            /\ probed' = [probed EXCEPT ![i] = @ \cup {"checksum"}]
       ELSE /\ csPc' = [csPc EXCEPT ![i] = "done"]
            /\ UNCHANGED <<csLocal, probed>>
    /\ UNCHANGED <<alertVars, storeVars, connVars, loopVars, mainPc>>
    /\ UNCHANGED <<pairPc, healthOK, lagPc, lagLocal, ccPc, ccLocal, activeKeys, reach>>
    /\ EngineFrame

\* ValidateAllTables, loop body: ValidateTable of the next table, its result
\* appended to results; after the last table the slice is returned to the
\* goroutine
CsProbeTable(i) ==
    /\ csPc[i] = "probe"
    /\ LET k == Len(csLocal[i]) + 1
       IN  \E ans \in FaultChecksumAnswers :
              /\ csLocal' = [csLocal EXCEPT ![i] =
                                Append(@, ValidateTable(Tables(i)[k], sourceConn[i],
                                                        targetConn[i], ans))]
              /\ csPc' = [csPc EXCEPT ![i] = IF k = Len(Tables(i)) THEN "store" ELSE "probe"]
    /\ UNCHANGED <<alertVars, storeVars, connVars, loopVars, mainPc>>
    /\ UNCHANGED <<pairPc, healthOK, lagPc, lagLocal, ccPc, ccLocal, activeKeys, probed, reach>>
    /\ EngineFrame

\* ValidateAllTables, loop body: the CHECKSUM TABLE query of the next table
\* never answers, and the goroutine stays in the call
CsTableHangs(i) ==
    /\ csPc[i] = "probe"
    /\ csPc' = [csPc EXCEPT ![i] = "query"]
    /\ UNCHANGED <<alertVars, storeVars, connVars, loopVars, mainPc>>
    /\ UNCHANGED <<pairPc, healthOK, lagPc, lagLocal, csLocal, ccPc, ccLocal>>
    /\ UNCHANGED <<activeKeys, probed, reach>>
    /\ EngineFrame

NextTable ==
    \/ LoopSpawn
    \/ LoopWaitDone
    \/ \E i \in PairIdx : PairHealth(i)
    \/ \E i \in PairIdx : PairWaitDone(i)
    \/ \E i \in PairIdx : LagProbe(i)
    \/ \E i \in PairIdx : LagStore(i)
    \/ \E i \in PairIdx : LagEval(i)
    \/ \E i \in PairIdx : CsBegin(i)
    \/ \E i \in PairIdx : CsProbeTable(i)
    \/ \E i \in PairIdx : CsTableHangs(i)
    \/ \E i \in PairIdx : CsStore(i)
    \/ \E i \in PairIdx : CsEval(i)
    \/ \E i \in PairIdx : CcProbe(i)
    \/ \E i \in PairIdx : CcStore(i)
    \/ \E i \in PairIdx : CcEval(i)

TableSpec == InitTableSpec /\ [][NextTable]_vars

\* C21: the result of a table's checksum probe is in the store as soon as the
\* probe has completed: while the probe of another table of the pair is
\* still to run, running or blocked, every table already probed has its
\* result recorded.
C21_RecordedOnCompletion ==
    \A i \in PairIdx :
        csPc[i] \in {"probe", "query"} =>
            \A k \in DOMAIN csLocal[i] :
                ResultKey(PairName(i), csLocal[i][k].TableName) \in DOMAIN checksumResults

(***************************************************************************)
(* Stored means evaluated (FaultSpec)                                      *)
(***************************************************************************)

\* the lag entry of pair i stored last
LastLagEntry(i) == replicaLagHistory[CHOOSE k \in LagEntries(i) : \A j \in LagEntries(i) : j <= k]

\* no probe goroutine of pair i stands between its store and its evaluate call
NoResultPending(i) == lagPc[i] # "eval" /\ csPc[i] # "eval" /\ ccPc[i] # "eval"

\* the alert manager has seen what the store holds of pair i: the condition
\* of the pair's lag and of each of its tables is open exactly when the
\* stored result asks for an alert
StoredIsEvaluated(i) ==
    /\ LagEntries(i) # {} =>
          (LagKey(PairName(i)) \in DOMAIN activeAlerts <=> WantsLagAlert(LastLagEntry(i)))
    /\ \A k \in DOMAIN Tables(i) :
          LET t   == Tables(i)[k]
              key == ResultKey(PairName(i), t)
          IN  /\ key \in DOMAIN checksumResults =>
                    (ChecksumKey(PairName(i), t) \in DOMAIN activeAlerts
                        <=> WantsChecksumAlert(checksumResults[key]))
              /\ key \in DOMAIN consistencyResults =>
                    (ConsistencyKey(PairName(i), t) \in DOMAIN activeAlerts
                        <=> WantsConsistencyAlert(consistencyResults[key]))

\* C22: once a pair's goroutine has returned, every result its probes stored
\* in this cycle has been evaluated by the alert manager; the cycle, and
\* Stop, complete only after every pair's goroutine has returned.
C22_StoredThenEvaluated ==
    /\ \A i \in PairIdx :
          pairPc[i] = "done" => NoResultPending(i) /\ StoredIsEvaluated(i)
    /\ (loopPc \in {"select", "exited"} \/ mainPc[1] \in {"close", "stopped"}) =>
          \A i \in PairIdx : pairPc[i] = "done"

\* Stop has returned after a cycle in which pair a's checksum probe failed
\* and its count probe found equal counts: the first left a stored result
\* and an open alert, the second a stored result and no alert
C22_Witness ==
    /\ mainPc = <<"stopped", 0>>
    /\ ChecksumErrorsStored(1)
    /\ ChecksumKey("a", "t") \in DOMAIN activeAlerts
    /\ ResultKey("a", "t") \in DOMAIN consistencyResults
    /\ consistencyResults[ResultKey("a", "t")].Consistent
    /\ ConsistencyKey("a", "t") \notin DOMAIN activeAlerts
    /\ LagEntries(2) # {}

(***************************************************************************)
(* The classification of MeasureLag (ProbeSpec)                            *)
(***************************************************************************)

\* the row carries a numeric lag
LagPresent(raw) ==
    \/ raw.kind = "int64"
    \/ raw.kind = "bytes" /\ raw.s \in {"0", "60", "61"}
LagValue(raw) ==
    CASE raw = RawInt64(0) \/ raw = RawBytes("0") -> 0
      [] raw = RawBytes("60") -> 60000
      [] raw = RawBytes("61") -> 61000

\* C23: on an open connection, a response with no row is classified
\* no_replication; a row is classified ok exactly when both threads are
\* reported running ("Yes") and the lag column holds a number, and then the
\* metric carries that number, zero included; replication_stopped with lag 0
\* when a thread is reported not running; lag_unknown with lag 0 when both
\* run and the lag is missing, NULL or unreadable.  Every metric a probe
\* returned has one of the statuses, and a lag of 0 unless its status is ok.
C23_Classification ==
    /\ MeasureLag("open", NoRows).Status = "no_replication"
    /\ \A r \in RawRows :
          LET m       == MeasureLag("open", SlaveStatusRow(r[1], r[2], r[3]))
              running == r[1] = "Yes" /\ r[2] = "Yes"
          IN  /\ m.Status = "ok" <=> (running /\ LagPresent(r[3]))
              /\ m.Status = "ok" => m.LagSeconds = LagValue(r[3]) /\ m.Error.nil
              /\ ~running => m.Status = "replication_stopped" /\ m.LagSeconds = 0
              /\ (running /\ ~LagPresent(r[3])) => m.Status = "lag_unknown" /\ m.LagSeconds = 0
    /\ \A i \in PairIdx :
          lagLocal[i] # NilPtr =>
              /\ lagLocal[i].Status \in LagStatuses
              /\ lagLocal[i].Status # "ok" => lagLocal[i].LagSeconds = 0 /\ ~lagLocal[i].Error.nil

\* MeasureLag returned lag_unknown
C23_Witness ==
    \E i \in PairIdx :
        /\ lagLocal[i] # NilPtr
        /\ lagLocal[i].Status = "lag_unknown"
        /\ lagLocal[i].LagSeconds = 0

(***************************************************************************)
(* Verdicts of the table probes (ProbeSpec)                                *)
(***************************************************************************)

\* both sides' values were obtained
BothAnswered(sConn, tConn, ans) ==
    sConn = "open" /\ tConn = "open" /\ ~ans.srcErr /\ ~ans.tgtErr

\* C24: ValidateTable and CheckTable report a match exactly when both sides
\* answered and the two values are equal, and an error exactly when a side's
\* connection or query failed; a result without an error carries the values
\* of both sides.  No result a probe returned has an error and a match.
C24_NoVerdictOnPartialFailure ==
    /\ \A sConn \in ConnStates, tConn \in ConnStates, ans \in ChecksumAnswers :
          LET r == ValidateTable("t", sConn, tConn, ans)
          IN  /\ r.Match <=> (BothAnswered(sConn, tConn, ans) /\ ans.src = ans.tgt)
              /\ r.Error.nil <=> BothAnswered(sConn, tConn, ans)
              /\ r.Error.nil => r.SourceChecksum = ans.src /\ r.TargetChecksum = ans.tgt
    /\ \A sConn \in ConnStates, tConn \in ConnStates, ans \in CountAnswers :
          LET r == CheckTable("t", sConn, tConn, ans)
          IN  /\ r.Consistent <=> (BothAnswered(sConn, tConn, ans) /\ ans.src = ans.tgt)
              /\ r.Error.nil <=> BothAnswered(sConn, tConn, ans)
              /\ r.Error.nil => r.SourceRowCount = ans.src /\ r.TargetRowCount = ans.tgt
    /\ \A i \in PairIdx :
          /\ \A k \in DOMAIN csLocal[i] :
                /\ ~(csLocal[i][k].Match /\ ~csLocal[i][k].Error.nil)
                /\ csLocal[i][k].Error.nil =>
                      csLocal[i][k].SourceChecksum # "" /\ csLocal[i][k].TargetChecksum # ""
          /\ \A k \in DOMAIN ccLocal[i] :
                ~(ccLocal[i][k].Consistent /\ ~ccLocal[i][k].Error.nil)

\* ValidateAllTables returned a result of a partial failure: the source
\* checksum was obtained, the target's query failed
C24_Witness ==
    \E i \in PairIdx : \E k \in DOMAIN csLocal[i] :
        /\ csLocal[i][k].SourceChecksum = "AAA"
        /\ csLocal[i][k].TargetChecksum = ""
        /\ ~csLocal[i][k].Error.nil
        /\ ~csLocal[i][k].Match

(***************************************************************************)
(* The result slots of the store (SlotSpec): StoreChecksumResult and       *)
(* StoreConsistencyResult called with results of pairs and tables whose    *)
(* names may hold a colon (the configuration puts no restriction on the     *)
(* characters of a name).                                                   *)
(***************************************************************************)

\* the (pair, table) the stored results are about
SlotSubjects == {<<"a", "t">>, <<"a", "b:t">>, <<"a:b", "t">>}

SlotChecksumArgs ==
    {[DatabasePair |-> sub[1], TableName |-> sub[2], SourceChecksum |-> "AAA",
      TargetChecksum |-> tgt, Match |-> (tgt = "AAA"), Timestamp |-> now, Error |-> ErrNil] :
        sub \in SlotSubjects, tgt \in {"AAA", "BBB"}}

SlotConsistencyArgs ==
    {[DatabasePair |-> sub[1], TableName |-> sub[2], SourceRowCount |-> 100,
      TargetRowCount |-> tgt, Consistent |-> (tgt = 100), Timestamp |-> now, Error |-> ErrNil] :
        sub \in SlotSubjects, tgt \in {100, 98}}

SlotStoreChecksumResult ==
    \E r \in SlotChecksumArgs :
        /\ StoreChecksumResult(r)
        /\ UNCHANGED <<replicaLagHistory, consistencyResults, connectionStatus, now>>
        /\ StoreFrame

SlotStoreConsistencyResult ==
    \E r \in SlotConsistencyArgs :
        /\ StoreConsistencyResult(r)
        /\ UNCHANGED <<replicaLagHistory, checksumResults, connectionStatus, now>>
        /\ StoreFrame

NextSlot ==
    \/ SlotStoreChecksumResult
    \/ SlotStoreConsistencyResult

SlotSpec == InitStoreSpec /\ [][NextSlot]_vars

\* C25: the slot of a (pair, table) holds a result stored for that pair and
\* that table, in the checksum map and in the consistency map.
C25_SlotHoldsOwnResult ==
    \A sub \in SlotSubjects :
        LET key == ResultKey(sub[1], sub[2])
        IN  /\ key \in DOMAIN checksumResults =>
                  /\ checksumResults[key].DatabasePair = sub[1]
                  /\ checksumResults[key].TableName = sub[2]
            /\ key \in DOMAIN consistencyResults =>
                  /\ consistencyResults[key].DatabasePair = sub[1]
                  /\ consistencyResults[key].TableName = sub[2]

(***************************************************************************)
(* Ticks and cycles (Spec)                                                 *)
(***************************************************************************)

\* a tick that fired while a cycle runs stays in ticker.C until the loop is
\* back at its select
C26_TickKeptStep == (loopPc \in {"cycle", "wait"} /\ tickerC = 1) => tickerC' = 1
\* the select starts a cycle only by taking the pending tick, and none is left
C26_TickTakenStep == (loopPc = "select" /\ loopPc' = "cycle") => (tickerC = 1 /\ tickerC' = 0)

\* C26: at most one tick is pending at any time; a tick that fires during a
\* cycle is kept until the cycle has finished, and the cycle that follows
\* takes it and leaves none behind.
C26_SingleSlotTicker ==
    /\ [](tickerC \in {0, 1})
    /\ [][C26_TickKeptStep /\ C26_TickTakenStep]_vars

\* a tick is pending while probes of the running cycle have not returned
C26_Witness ==
    /\ tickerC = 1
    /\ loopPc = "wait"
    /\ \E i \in PairIdx : ProbeActive(i)

(***************************************************************************)
(* Start (Spec)                                                            *)
(***************************************************************************)

\* Start has gone through its loop over the pairs
StartConnected == mainPc[1] # "start"

\* C27: whatever the connection attempts met, Start has recorded a health for
\* every pair when it leaves its loop, a side being reported connected only
\* if its handle was set; it then spawns the monitoring loop and returns, and
\* the loop comes to its select (the wait for a tick or for the stop signal)
\* only after it has started a cycle.
C27_StartBestEffort ==
    /\ StartConnected => \A i \in PairIdx : PairName(i) \in DOMAIN connectionStatus
    /\ mainPc = <<"spawn", 0>> =>
          \A i \in PairIdx :
              /\ connectionStatus[PairName(i)].SourceConnected => sourceConn[i] = "open"
              /\ connectionStatus[PairName(i)].TargetConnected => targetConn[i] = "open"
    /\ mainPc[1] \in {"running", "wait", "close", "stopped"} => loopPc # "none"
    /\ loopPc \in {"select", "exited"} => cycle >= 1

\* every connection attempt of both pairs failed; Start has returned, and the
\* loop has completed its first cycle before any tick
C27_Witness ==
    /\ mainPc = <<"running", 0>>
    /\ \A i \in PairIdx : sourceConn[i] = "nil" /\ targetConn[i] = "nil"
    /\ \A i \in PairIdx : ~connectionStatus[PairName(i)].SourceConnected
    /\ cycle = 1
    /\ loopPc = "select"
    /\ tickerC = 0

(***************************************************************************)
(* Connection retry (Spec)                                                 *)
(***************************************************************************)

\* C28: a connect call makes at most maxRetries attempts and none after the
\* first that succeeded; it returns no error and leaves the handle open
\* exactly when an attempt succeeded; after maxRetries failed attempts it
\* returns an error and the handle is as it was, unset.  While Start has not
\* come to a pair, the pair's handles are unset.
C28_ConnectRetry ==
    /\ \A a \in Attempts :
          LET r == connectWithRetry("nil", a)
          IN  /\ r.tried \in 1..maxRetries
              /\ \A k \in 1..(r.tried - 1) : a[k] # "ok"
              /\ ~r.err <=> (\E k \in 1..maxRetries : a[k] = "ok")
              /\ ~r.err => a[r.tried] = "ok" /\ r.conn = "open"
              /\ r.err => r.tried = maxRetries /\ r.conn = "nil"
    /\ \A i \in PairIdx :
          (mainPc[1] = "start" /\ mainPc[2] <= i) =>
              sourceConn[i] = "nil" /\ targetConn[i] = "nil"

\* Start has connected the first pair: the source gave up after its attempts
\* and has no handle, the target has one
C28_Witness ==
    /\ mainPc = <<"start", 2>>
    /\ sourceConn[1] = "nil"
    /\ targetConn[1] = "open"

(***************************************************************************)
(* Health before probes (Spec)                                             *)
(***************************************************************************)

\* C29: no probe of a pair runs while the pair's goroutine is still at its
\* health check; once the probes have been started, the store holds the
\* health this cycle's check found, and every probe that ran did so on the
\* values of that check (the lag probe on targetOK, the table probes on
\* sourceOK and targetOK).
C29_HealthBeforeProbes ==
    \A i \in PairIdx :
        /\ pairPc[i] = "health" => ~ProbeActive(i)
        /\ pairPc[i] \in {"wait", "done"} =>
              /\ PairName(i) \in DOMAIN connectionStatus
              /\ connectionStatus[PairName(i)].SourceConnected = healthOK[i].source
              /\ connectionStatus[PairName(i)].TargetConnected = healthOK[i].target
              /\ "lag" \in probed[i] => healthOK[i].target
              /\ "checksum" \in probed[i] => healthOK[i].source /\ healthOK[i].target
              /\ "consistency" \in probed[i] => healthOK[i].source /\ healthOK[i].target
              /\ (lagPc[i] = "done" /\ healthOK[i].target) => "lag" \in probed[i]

\* pair a in a cycle whose check found the source down and the target up:
\* the store says so, the lag probe has measured, the checksum goroutine has
\* returned without probing
C29_Witness ==
    /\ pairPc[1] = "wait"
    /\ ~healthOK[1].source /\ healthOK[1].target
    /\ ~connectionStatus["a"].SourceConnected /\ connectionStatus["a"].TargetConnected
    /\ lagPc[1] = "store"
    /\ "lag" \in probed[1]
    /\ csPc[1] = "done"
    /\ "checksum" \notin probed[1]

(***************************************************************************)
(* The alert history beyond its cap (HistorySpec): the checksum of one     *)
(* table evaluated over and over, differing and matching, while the clock   *)
(* advances; every mismatch that follows a match creates an alert.          *)
(***************************************************************************)

\* alerts created, and clock ticks, in a run of HistorySpec
MaxAlerts    == 103
HistoryTicks == 1

HistoryArgs ==
    {[TableName |-> "t", SourceChecksum |-> "AAA", TargetChecksum |-> c, Match |-> (c = "AAA"),
      Error |-> ErrNil] : c \in {"AAA", "BBB"}}

HistoryEvaluateChecksum ==
    \E r \in HistoryArgs :
        /\ Len(alerts) < MaxAlerts
        /\ EvaluateChecksum("a", r)
        /\ NoteKey(r, ChecksumKey("a", r.TableName), WantsChecksumAlert(r))
        /\ UNCHANGED evalLog
        /\ AlertFrame

HistoryClock ==
    /\ now < HistoryTicks
    /\ now' = now + 1
    /\ UNCHANGED <<alertVars, storeVars, snap, connVars, engineVars, webVars, ghostVars>>

NextHistory ==
    \/ HistoryEvaluateChecksum
    \/ HistoryClock

HistorySpec == InitAlertSpec /\ [][NextHistory]_vars

CycleClock ==
    /\ loopPc = "wait"
    /\ now < MaxTime
    /\ now' = now + 1
    /\ UNCHANGED <<alertVars, storeVars, snap, connVars, engineVars, webVars, ghostVars>>

NextOrder ==
    \/ LoopSpawn
    \/ LoopWaitDone
    \/ CycleClock
    \/ \E i \in PairIdx : PairHealth(i)
    \/ \E i \in PairIdx : PairWaitDone(i)
    \/ \E i \in PairIdx : LagStart(i)
    \/ \E i \in PairIdx : LagStore(i)
    \/ \E i \in PairIdx : LagEval(i)
    \/ \E i \in PairIdx : CsStart(i)
    \/ \E i \in PairIdx : CsStore(i)
    \/ \E i \in PairIdx : CsEval(i)
    \/ \E i \in PairIdx : CcStart(i)
    \/ \E i \in PairIdx : CcStore(i)
    \/ \E i \in PairIdx : CcEval(i)

OrderSpec == InitFaultSpec /\ [][NextOrder]_vars

\* C31: the sequence GetReplicaLagHistory returns is oldest first: the
\* Timestamps of its entries never decrease along it, however the lag
\* goroutines of the pairs interleave.
C31_HistoryOldestFirst ==
    LET h == GetReplicaLagHistory(historyDuration)
    IN  \A j \in DOMAIN h : \A k \in DOMAIN h :
            j < k => h[j].Timestamp <= h[k].Timestamp

(***************************************************************************)
(* The alert history is append-only (AlertSpec)                            *)
(***************************************************************************)

\* every entry of the history stays at its place, unchanged but for its
\* resolved flag
C32_EntriesKeptStep ==
    /\ Len(alerts') >= Len(alerts)
    /\ \A k \in DOMAIN alerts :
          [alerts'[k] EXCEPT !.Resolved = TRUE] = [alerts[k] EXCEPT !.Resolved = TRUE]

\* a call on an active key whose message differs from the open alert's
\* appends one entry; the entry of the superseded alert stays, unresolved
C32_SupersededStep ==
    (IsEvalStep /\ EvalWants(ThisEval) /\ EvalKey(ThisEval) \in DOMAIN activeAlerts
       /\ activeAlerts[EvalKey(ThisEval)].Message # EvalMessage(ThisEval)) =>
        /\ Len(alerts') = Len(alerts) + 1
        /\ alerts'[Len(alerts')].Message = EvalMessage(ThisEval)
        /\ \E k \in DOMAIN alerts :
              /\ alerts[k].Message = activeAlerts[EvalKey(ThisEval)].Message
              /\ alerts'[k] = alerts[k]
              /\ ~alerts'[k].Resolved

\* C32: the alert history is append-only: no Evaluate* call removes or
\* reorders an entry or changes a field of it other than the resolved flag;
\* a changed message on an active condition adds an entry and leaves the
\* superseded entry in the history, still marked unresolved.
C32_HistoryAppendOnly == [][C32_EntriesKeptStep /\ C32_SupersededStep]_vars

\* two calls on one condition, both asking for an alert, with different
\* messages: two entries, the first still unresolved
C32_Witness ==
    /\ Len(evalLog) = 2
    /\ SameCondition(evalLog[1], evalLog[2])
    /\ EvalWants(evalLog[1]) /\ EvalWants(evalLog[2])
    /\ EvalMessage(evalLog[1]) # EvalMessage(evalLog[2])
    /\ Len(alerts) = 2
    /\ alerts[1].Message = EvalMessage(evalLog[1])
    /\ ~alerts[1].Resolved

(***************************************************************************)
(* Store and alerts at rest (QuiescentSpec): the cycle of FaultSpec run on *)
(* a configuration in which each pair monitors a table.                    *)
(***************************************************************************)

\* pair a monitors table b_t, and pair a_b monitors table t
InitQuiescentSpec ==
    /\ InitStarted
    /\ pairMonitors = << [pairName |-> "a",   tables |-> <<"b_t">>],
                         [pairName |-> "a_b", tables |-> <<"t">>] >>

QuiescentSpec == InitQuiescentSpec /\ [][NextFault]_vars

\* C33: whenever no goroutine of a cycle is running, the alert conditions
\* agree with the store: for every pair and table with a stored checksum
\* result the checksum condition is active exactly when that result is a
\* mismatch or carries an error, likewise for the count results, and the
\* pair's lag condition is active exactly when its latest stored lag
\* measurement asks for an alert.
C33_StoreAgreesWithAlerts ==
    ~SomeGoroutineRunning => \A i \in PairIdx : StoredIsEvaluated(i)

(***************************************************************************)
(* Identity of the alert conditions (AlertSpec)                            *)
(***************************************************************************)

\* the alert was raised by a call for the condition (kind, pair, table) of e
RaisedFor(alert, e) ==
    \E j \in DOMAIN evalLog :
        /\ EvalWants(evalLog[j])
        /\ EvalMessage(evalLog[j]) = alert.Message
        /\ SameCondition(evalLog[j], e)

\* a call removes or replaces only an open alert of its own condition
C34_OwnStateStep ==
    (IsEvalStep /\ ThisEval.arg # NilPtr) =>
        \A k \in DOMAIN activeAlerts :
            (k \notin DOMAIN activeAlerts' \/ activeAlerts'[k] # activeAlerts[k]) =>
                RaisedFor(activeAlerts[k], ThisEval)

\* C34: the identity of an alert condition is injective: different (kind,
\* pair name, table name) triples share no alert state, so an evaluation
\* for one of them neither resolves nor replaces an open alert that was
\* raised for another.
C34_InjectiveIdentity == [][C34_OwnStateStep]_vars

(***************************************************************************)
(* A cycle with the target unreachable (Spec)                              *)
(***************************************************************************)

\* the health check of pair i's current cycle found the target unreachable
TargetOutage(i) == pairPc[i] \in {"wait", "done"} /\ ~healthOK[i].target

\* the lag entries of a pair in a history slice, in slice order
PairLagHistory(h, pairName) ==
    LET OfPair(m) == m.DatabasePair = pairName
    IN  SelectSeq(h, OfPair)

\* the slot of a key in a map, NilPtr when the key is absent
Slot(m, key) == IF key \in DOMAIN m THEN m[key] ELSE NilPtr

\* through a step of a cycle in which pair i's target is unreachable, what
\* the store and the alert manager hold of pair i stays as it was
C35_OutageStep ==
    \A i \in PairIdx :
        TargetOutage(i)' =>
            /\ PairLagHistory(replicaLagHistory', PairName(i))
                  = PairLagHistory(replicaLagHistory, PairName(i))
            /\ Slot(activeAlerts', LagKey(PairName(i))) = Slot(activeAlerts, LagKey(PairName(i)))
            /\ \A k \in DOMAIN Tables(i) :
                  LET t == Tables(i)[k]
                  IN  /\ Slot(checksumResults', ResultKey(PairName(i), t))
                            = Slot(checksumResults, ResultKey(PairName(i), t))
                      /\ Slot(consistencyResults', ResultKey(PairName(i), t))
                            = Slot(consistencyResults, ResultKey(PairName(i), t))
                      /\ Slot(activeAlerts', ChecksumKey(PairName(i), t))
                            = Slot(activeAlerts, ChecksumKey(PairName(i), t))
                      /\ Slot(activeAlerts', ConsistencyKey(PairName(i), t))
                            = Slot(activeAlerts, ConsistencyKey(PairName(i), t))

\* C35: a cycle in which a pair's target is unreachable leaves the pair's
\* lag entries (and so its latest lag), its checksum and count slots and its
\* alert conditions unchanged: no step of such a cycle changes them.
C35_OutageLeavesPairUnchanged == [][C35_OutageStep]_vars

(***************************************************************************)
(* Stop and a pending tick (Spec)                                          *)
(***************************************************************************)

\* the loop is at its select with stopChan closed: it does not go on to
\* runMonitoringCycle
C36_NoCycleAfterStopStep ==
    (stopChan = "closed" /\ loopPc = "select") => loopPc' # "cycle"

\* C36: once Stop has closed stopChan while no cycle is in flight, the
\* monitoring loop starts no further cycle, even with a tick pending.
C36_NoCycleAfterStop == [][C36_NoCycleAfterStopStep]_vars

(***************************************************************************)
(* Stop called again (StopTwiceSpec): the cycle of FaultSpec, and a caller *)
(* that calls Stop a second time once the first call has returned.         *)
(***************************************************************************)

\* Stop on a stopped engine, its first statement: close(me.stopChan).  The
\* channel is made once, by NewMonitoringEngine; closing a closed channel
\* panics, and nothing recovers; on an open channel Stop goes on to its wait
StopRepeated ==
    /\ mainPc = <<"stopped", 0>>
    /\ IF stopChan = "closed"
       THEN mainPc' = <<"panic", 0>> /\ UNCHANGED stopChan
       ELSE mainPc' = <<"wait", 0>> /\ stopChan' = "closed"
    /\ UNCHANGED <<alertVars, storeVars, connVars, wgLoop, tickerC, loopPc, cycle>>
    /\ UNCHANGED <<pairPc, healthOK, probeVars, activeKeys, probed, reach>>
    /\ EngineFrame

NextStopTwice ==
    \/ StopSignal
    \/ StopWait
    \/ \E i \in PairIdx : StopClose(i)
    \/ StopRepeated
    \/ LoopSpawn
    \/ LoopWaitDone
    \/ LoopSelectStop
    \/ \E i \in PairIdx : PairHealth(i)
    \/ \E i \in PairIdx : PairWaitDone(i)
    \/ \E i \in PairIdx : LagProbe(i)
    \/ \E i \in PairIdx : LagStore(i)
    \/ \E i \in PairIdx : LagEval(i)
    \/ \E i \in PairIdx : CsProbe(i)
    \/ \E i \in PairIdx : CsStore(i)
    \/ \E i \in PairIdx : CsEval(i)
    \/ \E i \in PairIdx : CcProbe(i)
    \/ \E i \in PairIdx : CcStore(i)
    \/ \E i \in PairIdx : CcEval(i)

StopTwiceSpec == InitFaultSpec /\ [][NextStopTwice]_vars

\* C37: a second Stop on a stopped engine returns without failing and leaves
\* the engine stopped: the caller never ends in a panic.
C37_StopRepeatable == mainPc # <<"panic", 0>>

(***************************************************************************)
(* Writers of a slot and of an alert key (QuiescentSpec)                   *)
(***************************************************************************)

\* the probe goroutines that hold a result they are about to write under the
\* alert key: <<kind, pair index>>
AlertWriters(key) ==
    {<<"lag", i>> : i \in {j \in PairIdx :
        lagPc[j] \in {"store", "eval"} /\ LagKey(PairName(j)) = key}}
      \cup {<<"checksum", i>> : i \in {j \in PairIdx :
        /\ csPc[j] \in {"store", "eval"}
        /\ \E k \in DOMAIN csLocal[j] : ChecksumKey(PairName(j), csLocal[j][k].TableName) = key}}
      \cup {<<"consistency", i>> : i \in {j \in PairIdx :
        /\ ccPc[j] \in {"store", "eval"}
        /\ \E k \in DOMAIN ccLocal[j] : ConsistencyKey(PairName(j), ccLocal[j][k].TableName) = key}}

\* the probe goroutines that hold a result they are about to store in the slot
\* of the checksum map, and of the consistency map
ChecksumSlotWriters(slot) ==
    {j \in PairIdx :
        /\ csPc[j] \in {"store", "eval"}
        /\ \E k \in DOMAIN csLocal[j] : ResultKey(PairName(j), csLocal[j][k].TableName) = slot}
ConsistencySlotWriters(slot) ==
    {j \in PairIdx :
        /\ ccPc[j] \in {"store", "eval"}
        /\ \E k \in DOMAIN ccLocal[j] : ResultKey(PairName(j), ccLocal[j][k].TableName) = slot}

\* every write to a result slot or to the alert manager is made inside a
\* cycle, while the loop waits for the cycle's goroutines
C38_WriteInsideCycleStep ==
    (checksumResults' # checksumResults \/ consistencyResults' # consistencyResults
       \/ replicaLagHistory' # replicaLagHistory \/ activeAlerts' # activeAlerts
       \/ alerts' # alerts)
        => (loopPc = "wait" /\ loopPc' = "wait" /\ cycle' = cycle)

C38_OneWriter ==
    /\ \A key \in AllKeys : Cardinality(AlertWriters(key)) <= 1
    /\ \A p \in PairNames : \A t \in TableNames :
          /\ Cardinality(ChecksumSlotWriters(ResultKey(p, t))) <= 1
          /\ Cardinality(ConsistencySlotWriters(ResultKey(p, t))) <= 1

\* C38: single writer per store slot and alert key: at any time at most one
\* goroutine holds a result to write to a given slot or alert key, and every
\* write is made inside its cycle (cycles do not overlap), so writes of
\* different cycles are applied in cycle order.
C38_SingleWriter ==
    /\ []C38_OneWriter
    /\ [][C38_WriteInsideCycleStep]_vars

(***************************************************************************)
(* The alerts the web interface shows (AlertSpec)                          *)
(***************************************************************************)

\* handleAlerts: the body of /api/alerts is GetAlertHistory()
handleAlerts == GetAlertHistory

\* fetchAlerts of the index page: alerts.filter(a => !a.Resolved)
fetchAlerts ==
    LET Unresolved(a) == ~a.Resolved
    IN  SelectSeq(handleAlerts, Unresolved)

\* the elements of a list
Elements(list) == {list[i] : i \in DOMAIN list}

\* C39: the unresolved entries of the alert history are exactly the active
\* alerts: the alerts of GetAlertHistory whose resolved flag is false (what
\* the index page shows as active) are the alerts GetActiveAlerts returns.
C39_UnresolvedAreActive ==
    Len(alerts) < AlertHistoryLimit =>
        Elements(fetchAlerts) = Elements(GetActiveAlerts)

(***************************************************************************)
(* WebSpec: the WebServer's WebSocket connections: handleWebSocket of each *)
(* client, the goroutine that reads from the client until it is gone, and  *)
(* broadcastLoop.  conn.WriteJSON is not atomic: a goroutine enters it and  *)
(* leaves it.  ws.mu is held by BroadcastUpdate (RLock) from its first     *)
(* statement to its return, and by the two writers of wsClients (Lock) for  *)
(* one statement each.                                                      *)
(***************************************************************************)

WebFrame == UNCHANGED <<alertVars, storeVars, now, snap, connVars, engineVars, ghostVars>>

\* handleWebSocket: Upgrade; ws.mu.Lock(); ws.wsClients[conn] = true;
\* ws.mu.Unlock().  Lock waits while BroadcastUpdate holds the read lock
WsRegister(c) ==
    /\ handlerPc[c] = "none"
    /\ broadcastPc = "idle"
    /\ wsClients' = wsClients \cup {c}
    /\ handlerPc' = [handlerPc EXCEPT ![c] = "registered"]
    /\ UNCHANGED <<broadcastPc, broadcastTodo, broadcastConn, connWriters>>
    /\ WebFrame

\* handleWebSocket: ws.sendToClient(conn, initial message) enters
\* conn.WriteJSON; ws.mu is not held
WsInitialSend(c) ==
    /\ handlerPc[c] = "registered"
    /\ connWriters' = [connWriters EXCEPT ![c] = @ \cup {"handleWebSocket"}]
    /\ handlerPc' = [handlerPc EXCEPT ![c] = "writing"]
    /\ UNCHANGED <<wsClients, broadcastPc, broadcastTodo, broadcastConn>>
    /\ WebFrame

\* handleWebSocket: conn.WriteJSON returns; the goroutine that reads from the
\* client is started and the handler returns
WsInitialSent(c) ==
    /\ handlerPc[c] = "writing"
    /\ connWriters' = [connWriters EXCEPT ![c] = @ \ {"handleWebSocket"}]
    /\ handlerPc' = [handlerPc EXCEPT ![c] = "reading"]
    /\ UNCHANGED <<wsClients, broadcastPc, broadcastTodo, broadcastConn>>
    /\ WebFrame

\* the reading goroutine: ReadMessage fails (the client is gone); the deferred
\* function deletes the connection under ws.mu.Lock() and closes it
WsDisconnect(c) ==
    /\ handlerPc[c] = "reading"
    /\ broadcastPc = "idle"
    /\ wsClients' = wsClients \ {c}
    /\ handlerPc' = [handlerPc EXCEPT ![c] = "closed"]
    /\ UNCHANGED <<broadcastPc, broadcastTodo, broadcastConn, connWriters>>
    /\ WebFrame

\* broadcastLoop: a tick; BroadcastUpdate takes the read lock and ranges over
\* wsClients
BroadcastLock ==
    /\ broadcastPc = "idle"
    /\ broadcastTodo' = wsClients
    /\ broadcastPc' = "loop"
    /\ UNCHANGED <<wsClients, handlerPc, broadcastConn, connWriters>>
    /\ WebFrame

\* BroadcastUpdate, loop body: ws.sendToClient(conn, msg) enters conn.WriteJSON
BroadcastSend ==
    /\ broadcastPc = "loop"
    /\ \E c \in broadcastTodo :
          /\ broadcastConn' = c
          /\ broadcastTodo' = broadcastTodo \ {c}
          /\ connWriters' = [connWriters EXCEPT ![c] = @ \cup {"broadcastLoop"}]
    /\ broadcastPc' = "writing"
    /\ UNCHANGED <<wsClients, handlerPc>>
    /\ WebFrame

\* BroadcastUpdate, loop body: conn.WriteJSON returns
BroadcastSent ==
    /\ broadcastPc = "writing"
    /\ connWriters' = [connWriters EXCEPT ![broadcastConn] = @ \ {"broadcastLoop"}]
    /\ broadcastConn' = ""
    /\ broadcastPc' = "loop"
    /\ UNCHANGED <<wsClients, handlerPc, broadcastTodo>>
    /\ WebFrame

\* BroadcastUpdate returns (RUnlock); broadcastLoop waits for the next tick
BroadcastUnlock ==
    /\ broadcastPc = "loop"
    /\ broadcastTodo = {}
    /\ broadcastPc' = "idle"
    /\ UNCHANGED <<wsClients, handlerPc, broadcastTodo, broadcastConn, connWriters>>
    /\ WebFrame

NextWeb ==
    \/ \E c \in Conns : WsRegister(c)
    \/ \E c \in Conns : WsInitialSend(c)
    \/ \E c \in Conns : WsInitialSent(c)
    \/ \E c \in Conns : WsDisconnect(c)
    \/ BroadcastLock
    \/ BroadcastSend
    \/ BroadcastSent
    \/ BroadcastUnlock

WebSpec == InitAlertSpec /\ [][NextWeb]_vars

\* C40: at most one goroutine writes to a WebSocket connection at a time:
\* the initial message of handleWebSocket never overlaps with a write of
\* the broadcast loop to the same connection.
C40_OneWriterPerConn ==
    \A c \in Conns : Cardinality(connWriters[c]) <= 1

====
